---- MODULE Spec2Model ----
(***************************************************************************)
(* Model of smartci: the unified-diff parser, the import dependency graph  *)
(* (build, reachability queries, cache wire format), the safety rules and  *)
(* the action entry point.                                                 *)
(*                                                                         *)
(* Strings are sequences of tokens.  A token is a run of characters that   *)
(* no pattern of the program looks inside: a separator ("/", "\\"), a dot  *)
(* segment (".", ".."), a file extension (".ts", ".py", ...) or a name.    *)
(* The string 'src/utils.ts' is << "src", "/", "utils", ".ts" >>.          *)
(***************************************************************************)
EXTENDS Integers, Sequences, FiniteSets, TLC

VARIABLES
    files,      \* buildDependencyGraph: the path -> content mapping, in iteration order
    now,        \* the wall clock read by new Date()
    graph,      \* the DependencyGraph under work ("none" before the build)
    op,         \* the last operation that completed
    args,       \* its arguments
    res,        \* its result
    bfs,        \* the loop state of a running findDependents / findDependencies
    parser,     \* parseDiffString: diffs, currentFile, currentHunk, lines read
    safety,     \* applySafetyRules: inputs and result of the last call
    runst       \* run(): position, inputs and the action outputs set so far

vars == << files, now, graph, op, args, res, bfs, parser, safety, runst >>

\* null / undefined where a string is expected: a value no string equals
Null == << "<null>" >>

(***************************************************************************)
(* String helpers (String.prototype / Array.prototype)                     *)
(***************************************************************************)
TsExts == { ".ts", ".tsx", ".js", ".jsx" }

\* tokens whose first character is '.'
DotTokens == { ".", "..", ".py", ".json", ".test", ".spec" } \cup TsExts

startsWithDot(s) == Len(s) > 0 /\ s[1] \in DotTokens

Last(s) == s[Len(s)]

\* s.match(/\.[jt]sx?$/)
matchesTsExt(s) == Len(s) > 0 /\ Last(s) \in TsExts

includes(seq, x) == \E i \in 1..Len(seq) : seq[i] = x

Range(seq) == { seq[i] : i \in 1..Len(seq) }

\* s.lastIndexOf('/') as a 1-based token position, 0 when absent
lastIndexOfSlash(s) ==
    IF \E i \in 1..Len(s) : s[i] = "/"
    THEN CHOOSE i \in 1..Len(s) : s[i] = "/" /\ \A j \in (i+1)..Len(s) : s[j] # "/"
    ELSE 0

RECURSIVE splitSlashFrom(_, _, _)
splitSlashFrom(s, i, cur) ==
    IF i > Len(s) THEN << cur >>
    ELSE IF s[i] = "/" THEN << cur >> \o splitSlashFrom(s, i + 1, << >>)
    ELSE splitSlashFrom(s, i + 1, Append(cur, s[i]))

\* s.split('/')
splitSlash(s) == splitSlashFrom(s, 1, << >>)

RECURSIVE joinSlash(_)
\* parts.join('/')
joinSlash(parts) ==
    IF Len(parts) = 0 THEN << >>
    ELSE IF Len(parts) = 1 THEN parts[1]
    ELSE parts[1] \o << "/" >> \o joinSlash(Tail(parts))

\* arr.filter(p => p.length > 0)
RECURSIVE filterNonEmpty(_)
filterNonEmpty(parts) ==
    IF Len(parts) = 0 THEN << >>
    ELSE IF Len(parts[1]) > 0 THEN << parts[1] >> \o filterNonEmpty(Tail(parts))
    ELSE filterNonEmpty(Tail(parts))

(***************************************************************************)
(* Map<K, V> in insertion order: a sequence of [key, value] entries        *)
(***************************************************************************)
MapKeys(m) == [ i \in 1..Len(m) |-> m[i].key ]

MapHas(m, k) == \E i \in 1..Len(m) : m[i].key = k

MapIndex(m, k) == CHOOSE i \in 1..Len(m) : m[i].key = k

MapGet(m, k) == m[MapIndex(m, k)].value

\* Map.prototype.set: an existing key keeps its position
MapSet(m, k, v) ==
    IF MapHas(m, k)
    THEN [ m EXCEPT ![MapIndex(m, k)] = [ key |-> k, value |-> v ] ]
    ELSE Append(m, [ key |-> k, value |-> v ])

(***************************************************************************)
(* graph.ts: detectLanguage, normalizePath                                 *)
(***************************************************************************)
detectLanguage(filePath) ==
    IF matchesTsExt(filePath) THEN "typescript"
    ELSE IF Len(filePath) > 0 /\ Last(filePath) = ".py" THEN "python"
    ELSE "unknown"

normalizePath(filePath) ==
    LET stripped == IF Len(filePath) >= 2 /\ filePath[1] = "." /\ filePath[2] = "/"
                    THEN SubSeq(filePath, 3, Len(filePath))
                    ELSE filePath
    IN [ i \in 1..Len(stripped) |-> IF stripped[i] = "\\" THEN "/" ELSE stripped[i] ]

(***************************************************************************)
(* imports.ts: the import extractors.  A file's content is the sequence of *)
(* import statements in it; each statement has the syntactic form that one *)
(* of the four patterns recognises and the module specifier it names.      *)
(***************************************************************************)
ImportInfo(module, relative) == [ module |-> module, isRelative |-> relative ]

RECURSIVE selectForm(_, _)
selectForm(content, form) ==
    IF Len(content) = 0 THEN << >>
    ELSE IF content[1].form = form
         THEN << content[1] >> \o selectForm(Tail(content), form)
         ELSE selectForm(Tail(content), form)

\* ES imports first (importRegex), then require() calls (requireRegex)
parseTypeScriptImports(content) ==
    LET stmts == selectForm(content, "es") \o selectForm(content, "require")
    IN [ i \in 1..Len(stmts) |->
           ImportInfo(stmts[i].module,
                      startsWithDot(stmts[i].module)
                        \/ (Len(stmts[i].module) > 0 /\ stmts[i].module[1] = "/")) ]

\* from-imports first (fromImportRegex), then bare imports (directImportRegex)
parsePythonImports(content) ==
    LET stmts == selectForm(content, "from") \o selectForm(content, "pyimport")
    IN [ i \in 1..Len(stmts) |->
           ImportInfo(stmts[i].module, startsWithDot(stmts[i].module)) ]

RECURSIVE applyParts(_, _)
\* the loop over the specifier's parts: '.' is skipped, '..' pops, else push
applyParts(parts, baseParts) ==
    IF Len(parts) = 0 THEN baseParts
    ELSE IF parts[1] = << "." >> THEN applyParts(Tail(parts), baseParts)
    ELSE IF parts[1] = << ".." >>
         THEN applyParts(Tail(parts),
                         IF Len(baseParts) = 0 THEN baseParts
                         ELSE SubSeq(baseParts, 1, Len(baseParts) - 1))
    ELSE applyParts(Tail(parts), Append(baseParts, parts[1]))

resolveImportPath(importPath, fromFilePath) ==
    IF ~startsWithDot(importPath) THEN importPath
    ELSE
      LET idx      == lastIndexOfSlash(fromFilePath)
          fromDir  == IF idx = 0 THEN << >> ELSE SubSeq(fromFilePath, 1, idx - 1)
          resolved == joinSlash(applyParts(splitSlash(importPath),
                                           filterNonEmpty(splitSlash(fromDir))))
      IN IF ~matchesTsExt(resolved) /\ Len(resolved) > 0 /\ Last(resolved) = "/"
         THEN SubSeq(resolved, 1, Len(resolved) - 1)
         ELSE resolved

(***************************************************************************)
(* graph.ts: resolveModulePath, buildDependencyGraph                       *)
(***************************************************************************)
\* mutant: the index files of a directory are tried before the plain files
extensionsIndexFirst ==
    << << "/", "index", ".ts" >>, << "/", "index", ".tsx" >>,
       << "/", "index", ".js" >>, << "/", "index", ".jsx" >>,
       << ".ts" >>, << ".tsx" >>, << ".js" >>, << ".jsx" >>, << ".py" >> >>

extensions ==
    << << ".ts" >>, << ".tsx" >>, << ".js" >>, << ".jsx" >>,
       << "/", "index", ".ts" >>, << "/", "index", ".tsx" >>,
       << "/", "index", ".js" >>, << "/", "index", ".jsx" >>, << ".py" >> >>

RECURSIVE firstWithExt(_, _, _)
\* the first base + extensions[i..] that availableFiles has, or Null
firstWithExt(base, i, availableFiles) ==
    IF i > Len(extensions) THEN Null
    ELSE IF (base \o extensions[i]) \in availableFiles THEN base \o extensions[i]
    ELSE firstWithExt(base, i + 1, availableFiles)

resolveModulePath(importPath, fromFile, availableFiles) ==
    IF ~startsWithDot(importPath) THEN Null
    ELSE
      LET normalized == normalizePath(resolveImportPath(importPath, fromFile))
          withoutExt == IF matchesTsExt(normalized)
                        THEN SubSeq(normalized, 1, Len(normalized) - 1)
                        ELSE normalized
          first      == firstWithExt(normalized, 1, availableFiles)
      IN IF normalized \in availableFiles THEN normalized
         ELSE IF first # Null THEN first
         ELSE firstWithExt(withoutExt, 1, availableFiles)

GraphNode(path, imports, importedBy, externalDeps, language) ==
    [ path |-> path, imports |-> imports, importedBy |-> importedBy,
      externalDeps |-> externalDeps, language |-> language ]

RECURSIVE collectImports(_, _, _, _, _)
\* the loop over a file's ImportInfo records: [relativeImports, externalDeps]
collectImports(imports, normalizedPath, availableFiles, relativeImports, externalDeps) ==
    IF Len(imports) = 0
    THEN [ relativeImports |-> relativeImports, externalDeps |-> externalDeps ]
    ELSE
      LET imp == imports[1]
      IN IF imp.isRelative
         THEN LET resolved == resolveModulePath(imp.module, normalizedPath, availableFiles)
              IN collectImports(Tail(imports), normalizedPath, availableFiles,
                                IF resolved # Null /\ resolved # << >>
                                THEN Append(relativeImports, resolved)
                                ELSE relativeImports,
                                externalDeps)
         ELSE LET packageName == splitSlash(imp.module)[1]
              IN collectImports(Tail(imports), normalizedPath, availableFiles,
                                relativeImports,
                                IF includes(externalDeps, packageName) THEN externalDeps
                                ELSE Append(externalDeps, packageName))

RECURSIVE firstPass(_, _, _)
\* first pass: one node per file of a recognised language
firstPass(fileEntries, availableFiles, nodes) ==
    IF Len(fileEntries) = 0 THEN nodes
    ELSE
      LET filePath       == fileEntries[1].key
          content        == fileEntries[1].value
          language       == detectLanguage(filePath)
          normalizedPath == normalizePath(filePath)
          imports        == IF language = "typescript" THEN parseTypeScriptImports(content)
                            ELSE parsePythonImports(content)
          got            == collectImports(imports, normalizedPath, availableFiles, << >>, << >>)
      IN IF language = "unknown"
         THEN firstPass(Tail(fileEntries), availableFiles, nodes)
         ELSE firstPass(Tail(fileEntries), availableFiles,
                        MapSet(nodes, normalizedPath,
                               GraphNode(normalizedPath, got.relativeImports, << >>,
                                         got.externalDeps, language)))

\* mutant: a file that imports itself is not recorded as its own importer
addImportedBySkipSelf(nodes, importPath, filePath) ==
    IF importPath # filePath /\ MapHas(nodes, importPath)
       /\ ~includes(MapGet(nodes, importPath).importedBy, filePath)
    THEN LET n == MapGet(nodes, importPath)
         IN MapSet(nodes, importPath, [ n EXCEPT !.importedBy = Append(@, filePath) ])
    ELSE nodes

\* importedNode.importedBy.push(filePath) unless absent or already listed
addImportedBy(nodes, importPath, filePath) ==
    IF MapHas(nodes, importPath) /\ ~includes(MapGet(nodes, importPath).importedBy, filePath)
    THEN LET n == MapGet(nodes, importPath)
         IN MapSet(nodes, importPath, [ n EXCEPT !.importedBy = Append(@, filePath) ])
    ELSE nodes

RECURSIVE secondPass(_, _, _)
\* second pass: node i, its import j
secondPass(nodes, i, j) ==
    IF i > Len(nodes) THEN nodes
    ELSE IF j > Len(nodes[i].value.imports) THEN secondPass(nodes, i + 1, 1)
    ELSE secondPass(addImportedBy(nodes, nodes[i].value.imports[j], nodes[i].key), i, j + 1)

\* mutant: the time of the run leaks into fileCount
buildDependencyGraphTimedCount(fileEntries, rootDir, clock) ==
    LET availableFiles == Range(MapKeys(fileEntries))
        nodes          == secondPass(firstPass(fileEntries, availableFiles, << >>), 1, 1)
    IN [ nodes |-> nodes,
         metadata |-> [ builtAt |-> clock, rootDir |-> rootDir, fileCount |-> Len(nodes) + clock ] ]

buildDependencyGraph(fileEntries, rootDir, clock) ==
    LET availableFiles == Range(MapKeys(fileEntries))
        nodes          == secondPass(firstPass(fileEntries, availableFiles, << >>), 1, 1)
    IN [ nodes |-> nodes,
         metadata |-> [ builtAt |-> clock, rootDir |-> rootDir, fileCount |-> Len(nodes) ] ]

(***************************************************************************)
(* graph.ts: findDependents, findDependencies.  A Set<string> is the       *)
(* sequence of its members in insertion order.                             *)
(***************************************************************************)
SetAdd(set, x) == IF includes(set, x) THEN set ELSE Append(set, x)

RECURSIVE SetAddAll(_, _)
SetAddAll(set, xs) ==
    IF Len(xs) = 0 THEN set ELSE SetAddAll(SetAdd(set, xs[1]), Tail(xs))

\* the state on entry to the while loop; expanded is a history of the paths
\* whose neighbour list the loop has walked
bfsStart(edges, filePath, maxDepth) ==
    [ edges    |-> edges,
      maxDepth |-> maxDepth,
      queue    |-> << [ path |-> normalizePath(filePath), depth |-> 0 ] >>,
      visited  |-> << >>,
      found    |-> << >>,
      expanded |-> << >> ]

\* mutant: both traversals walk the importedBy lists
neighboursImportedByOnly(g, edges, path) == MapGet(g.nodes, path).importedBy

neighbours(g, edges, path) ==
    IF edges = "importedBy" THEN MapGet(g.nodes, path).importedBy
    ELSE MapGet(g.nodes, path).imports

RECURSIVE pushAll(_, _, _, _)
\* mutant: every neighbour is recorded and queued, visited or not
pushAll(s, list, visited, depth) ==
    IF Len(list) = 0 THEN s
    ELSE pushAll([ s EXCEPT !.found = SetAdd(@, list[1]),
                            !.queue = Append(@, [ path |-> list[1], depth |-> depth + 1 ]) ],
                 Tail(list), visited, depth)

RECURSIVE pushUnvisited(_, _, _, _)
\* the for loop over a node's neighbours
pushUnvisited(s, list, visited, depth) ==
    IF Len(list) = 0 THEN s
    ELSE IF ~includes(visited, list[1])
         THEN pushUnvisited([ s EXCEPT !.found = SetAdd(@, list[1]),
                                       !.queue = Append(@, [ path  |-> list[1],
                                                             depth |-> depth + 1 ]) ],
                            Tail(list), visited, depth)
         ELSE pushUnvisited(s, Tail(list), visited, depth)

\* mutant: a queue entry is expanded without asking whether its path was visited
bfsStepNoVisitedCheck(g, s) ==
    LET path    == s.queue[1].path
        depth   == s.queue[1].depth
        shifted == [ s EXCEPT !.queue = Tail(@) ]
    IN IF depth > s.maxDepth THEN shifted
       ELSE LET marked == [ shifted EXCEPT !.visited = SetAdd(@, path) ]
            IN IF ~MapHas(g.nodes, path) THEN marked
               ELSE pushUnvisited([ marked EXCEPT !.expanded = Append(@, path) ],
                                  neighbours(g, s.edges, path), marked.visited, depth)

\* one iteration of the while loop
bfsStep(g, s) ==
    LET path    == s.queue[1].path
        depth   == s.queue[1].depth
        shifted == [ s EXCEPT !.queue = Tail(@) ]
    IN IF includes(s.visited, path) \/ depth > s.maxDepth THEN shifted
       ELSE LET marked == [ shifted EXCEPT !.visited = SetAdd(@, path) ]
            IN IF ~MapHas(g.nodes, path) THEN marked
               ELSE pushUnvisited([ marked EXCEPT !.expanded = Append(@, path) ],
                                  neighbours(g, s.edges, path), marked.visited, depth)

RECURSIVE bfsRun(_, _)
\* the while loop, to its end
bfsRun(g, s) == IF Len(s.queue) = 0 THEN s ELSE bfsRun(g, bfsStep(g, s))

findDependents(g, filePath, maxDepth) ==
    bfsRun(g, bfsStart("importedBy", filePath, maxDepth)).found

findDependencies(g, filePath, maxDepth) ==
    bfsRun(g, bfsStart("imports", filePath, maxDepth)).found

\* the default value of the maxDepth parameter
DefaultMaxDepth == 10

(***************************************************************************)
(* graph.ts: findRelatedTests, getAffectedFiles                            *)
(***************************************************************************)
RECURSIVE filterIn(_, _)
\* the members of list that set has, in list order (duplicates kept)
filterIn(list, set) ==
    IF Len(list) = 0 THEN << >>
    ELSE IF includes(set, list[1]) THEN << list[1] >> \o filterIn(Tail(list), set)
    ELSE filterIn(Tail(list), set)

\* haystack.includes(needle) for strings
strIncludes(haystack, needle) ==
    \E i \in 0..(Len(haystack) - Len(needle)) :
        SubSeq(haystack, i + 1, i + Len(needle)) = needle

\* normalizedSource.replace(/\.[jt]sx?$/, '').replace(/\.py$/, '')
baseNameOf(normalizedSource) ==
    LET noTs == IF matchesTsExt(normalizedSource)
                THEN SubSeq(normalizedSource, 1, Len(normalizedSource) - 1)
                ELSE normalizedSource
    IN IF Len(noTs) > 0 /\ Last(noTs) = ".py" THEN SubSeq(noTs, 1, Len(noTs) - 1) ELSE noTs

nameMatches(testPath, baseName) ==
    \/ strIncludes(testPath, baseName \o << ".test" >>)
    \/ strIncludes(testPath, baseName \o << ".spec" >>)
    \/ strIncludes(testPath, << "test_" >> \o Last(splitSlash(baseName)))

RECURSIVE addNameMatches(_, _, _)
\* the loop over normalizedTests: a matching test is pushed unless already listed
addNameMatches(relatedTests, tests, baseName) ==
    IF Len(tests) = 0 THEN relatedTests
    ELSE addNameMatches(IF nameMatches(tests[1], baseName) /\ ~includes(relatedTests, tests[1])
                        THEN Append(relatedTests, tests[1])
                        ELSE relatedTests,
                        Tail(tests), baseName)

findRelatedTests(g, sourceFile, testFiles) ==
    LET normalizedSource == normalizePath(sourceFile)
        normalizedTests  == SetAddAll(<< >>, [ i \in 1..Len(testFiles) |->
                                                 normalizePath(testFiles[i]) ])
        direct           == IF MapHas(g.nodes, normalizedSource)
                            THEN filterIn(MapGet(g.nodes, normalizedSource).importedBy,
                                          normalizedTests)
                            ELSE << >>
        allDependents    == findDependents(g, normalizedSource, DefaultMaxDepth)
    IN addNameMatches(direct \o filterIn(allDependents, normalizedTests),
                      normalizedTests, baseNameOf(normalizedSource))

RECURSIVE addTransitive(_, _, _)
\* transitivelyAffected.add(dep) for the dependents not in directlyAffected
addTransitive(transitively, dependents, directly) ==
    IF Len(dependents) = 0 THEN transitively
    ELSE addTransitive(IF includes(directly, dependents[1]) THEN transitively
                       ELSE SetAdd(transitively, dependents[1]),
                       Tail(dependents), directly)

RECURSIVE affectedLoop(_, _, _, _)
\* the loop over changedFiles
affectedLoop(g, changedFiles, directly, transitively) ==
    IF Len(changedFiles) = 0
    THEN [ directlyAffected     |-> directly,
           transitivelyAffected |-> transitively,
           allAffected          |-> directly \o transitively ]
    ELSE LET normalized == normalizePath(changedFiles[1])
             directly2  == SetAdd(directly, normalized)
         IN affectedLoop(g, Tail(changedFiles), directly2,
                         addTransitive(transitively,
                                       findDependents(g, normalized, DefaultMaxDepth),
                                       directly2))

getAffectedFiles(g, changedFiles) == affectedLoop(g, changedFiles, << >>, << >>)

(***************************************************************************)
(* graph.ts: serializeGraph, deserializeGraph.  A Record<string, V> lists  *)
(* its own string keys in creation order; a node key ends in an extension  *)
(* and so is never an array index, which an object would list first.       *)
(***************************************************************************)
RECURSIVE copyEntries(_, _)
\* for (const [key, value] of entries) target[key] = value / target.set(key, value)
copyEntries(entries, target) ==
    IF Len(entries) = 0 THEN target
    ELSE copyEntries(Tail(entries), MapSet(target, entries[1].key, entries[1].value))

\* mutant: the reverse edges are left out of the wire format
serializeGraphNoImportedBy(g) ==
    [ nodes |-> [ i \in 1..Len(g.nodes) |->
                    [ key |-> g.nodes[i].key,
                      value |-> [ g.nodes[i].value EXCEPT !.importedBy = << >> ] ] ],
      metadata |-> g.metadata ]

serializeGraph(g) == [ nodes |-> copyEntries(g.nodes, << >>), metadata |-> g.metadata ]

deserializeGraph(data) == [ nodes |-> copyEntries(data.nodes, << >>), metadata |-> data.metadata ]

(***************************************************************************)
(* diff/parser.ts: parseDiffString.  A line is a sequence of tokens: the   *)
(* fixed texts the patterns look for ("diff --git a/", " b/", "@@ -", ",", *)
(* " +", " @@", "new file mode", "+", "-", " ", "+++", "---"), decimal     *)
(* numerals, and other text.  A value that may be null is a sequence of    *)
(* length 0 or 1.                                                          *)
(***************************************************************************)
MaxNum == 10

NumTokens == { ToString(n) : n \in 0..MaxNum }

\* parseInt(t, 10) of a decimal numeral
parseInt(t) == CHOOSE n \in 0..MaxNum : ToString(n) = t

\* the token at position i, "" past the end of the line
tokenAt(line, i) == IF i <= Len(line) THEN line[i] ELSE ""

\* line.match(/^diff --git a\/(.*) b\/(.*)$/): the two groups, or << >>
fileMatch(line) ==
    IF tokenAt(line, 1) = "diff --git a/" /\ \E i \in 2..Len(line) : line[i] = " b/"
    THEN LET i == CHOOSE k \in 2..Len(line) :
                     line[k] = " b/" /\ \A j \in (k+1)..Len(line) : line[j] # " b/"
         IN << SubSeq(line, 2, i - 1), SubSeq(line, i + 1, Len(line)) >>
    ELSE << >>

\* line.match(/^@@ -(\d+),?(\d*) \+(\d+),?(\d*) @@/): the four groups, or << >>
hunkMatch(line) ==
    LET c1 == IF tokenAt(line, 3) = "," THEN 4 ELSE 3
        n1 == IF tokenAt(line, c1) \in NumTokens THEN c1 + 1 ELSE c1
        c2 == IF tokenAt(line, n1 + 2) = "," THEN n1 + 3 ELSE n1 + 2
        n2 == IF tokenAt(line, c2) \in NumTokens THEN c2 + 1 ELSE c2
    IN IF /\ tokenAt(line, 1) = "@@ -"
          /\ tokenAt(line, 2) \in NumTokens
          /\ tokenAt(line, n1) = " +"
          /\ tokenAt(line, n1 + 1) \in NumTokens
          /\ tokenAt(line, n2) = " @@"
       THEN << line[2], IF n1 > c1 THEN line[c1] ELSE "",
               line[n1 + 1], IF n2 > c2 THEN line[c2] ELSE "" >>
       ELSE << >>

FileDiff(path, changeType, oldPath, hunks) ==
    [ path |-> path, changeType |-> changeType, oldPath |-> oldPath, hunks |-> hunks ]

DiffHunk(oldStart, oldLines, newStart, newLines) ==
    [ oldStart |-> oldStart, oldLines |-> oldLines, newStart |-> newStart,
      newLines |-> newLines, content |-> << >>, additions |-> << >>, deletions |-> << >> ]

\* the state before the first line
parserStart ==
    [ phase |-> "reading", lines |-> << >>, diffs |-> << >>,
      currentFile |-> << >>, currentHunk |-> << >> ]

\* currentFile.hunks.push(currentHunk) when a hunk is open
pushHunk(currentFile, currentHunk) ==
    IF Len(currentHunk) > 0 /\ Len(currentFile) > 0
    THEN << [ currentFile[1] EXCEPT !.hunks = Append(@, currentHunk[1]) ] >>
    ELSE currentFile

\* mutant: the '+++' and '---' lines of a file block are kept as content
addContentKeepFileLines(hunk, line) ==
    IF tokenAt(line, 1) = "+"
    THEN [ hunk EXCEPT !.additions = Append(@, Tail(line)), !.content = Append(@, line) ]
    ELSE IF tokenAt(line, 1) = "-"
    THEN [ hunk EXCEPT !.deletions = Append(@, Tail(line)), !.content = Append(@, line) ]
    ELSE IF tokenAt(line, 1) \in { " ", "+++", "---" } \/ line = << >>
    THEN [ hunk EXCEPT !.content = Append(@, line) ]
    ELSE hunk

\* a content line inside a hunk
addContent(hunk, line) ==
    IF tokenAt(line, 1) = "+"
    THEN [ hunk EXCEPT !.additions = Append(@, Tail(line)), !.content = Append(@, line) ]
    ELSE IF tokenAt(line, 1) = "-"
    THEN [ hunk EXCEPT !.deletions = Append(@, Tail(line)), !.content = Append(@, line) ]
    ELSE IF tokenAt(line, 1) = " " \/ line = << >>
    THEN [ hunk EXCEPT !.content = Append(@, line) ]
    ELSE hunk

\* mutant: a count of 0 is taken for an omitted one, as parseInt(m) || 1 would
parseLineZeroIsMissing(st, line) ==
    LET fm   == fileMatch(line)
        hm   == hunkMatch(line)
        read == [ st EXCEPT !.lines = Append(@, line) ]
    IN IF fm # << >>
       THEN [ read EXCEPT
                !.diffs = IF Len(st.currentFile) > 0 THEN Append(@, st.currentFile[1]) ELSE @,
                !.currentFile = << IF fm[1] # fm[2]
                                   THEN FileDiff(fm[2], "renamed", << fm[1] >>, << >>)
                                   ELSE FileDiff(fm[2], "modified", << >>, << >>) >>,
                !.currentHunk = << >> ]
       ELSE IF Len(st.currentFile) > 0 /\ tokenAt(line, 1) = "new file mode"
       THEN [ read EXCEPT !.currentFile[1].changeType = "added" ]
       ELSE IF Len(st.currentFile) > 0 /\ tokenAt(line, 1) = "deleted file mode"
       THEN [ read EXCEPT !.currentFile[1].changeType = "deleted" ]
       ELSE IF hm # << >> /\ Len(st.currentFile) > 0
       THEN [ read EXCEPT
                !.currentFile = pushHunk(st.currentFile, st.currentHunk),
                !.currentHunk = << DiffHunk(parseInt(hm[1]),
                                            parseInt(IF hm[2] \in { "", "0" } THEN "1" ELSE hm[2]),
                                            parseInt(hm[3]),
                                            parseInt(IF hm[4] \in { "", "0" } THEN "1" ELSE hm[4])) >> ]
       ELSE IF Len(st.currentHunk) > 0
       THEN [ read EXCEPT !.currentHunk = << addContent(st.currentHunk[1], line) >> ]
       ELSE read

\* the body of the loop over the lines
parseLine(st, line) ==
    LET fm   == fileMatch(line)
        hm   == hunkMatch(line)
        read == [ st EXCEPT !.lines = Append(@, line) ]
    IN IF fm # << >>
       THEN [ read EXCEPT
                !.diffs = IF Len(st.currentFile) > 0 THEN Append(@, st.currentFile[1]) ELSE @,
                !.currentFile = << IF fm[1] # fm[2]
                                   THEN FileDiff(fm[2], "renamed", << fm[1] >>, << >>)
                                   ELSE FileDiff(fm[2], "modified", << >>, << >>) >>,
                !.currentHunk = << >> ]
       ELSE IF Len(st.currentFile) > 0 /\ tokenAt(line, 1) = "new file mode"
       THEN [ read EXCEPT !.currentFile[1].changeType = "added" ]
       ELSE IF Len(st.currentFile) > 0 /\ tokenAt(line, 1) = "deleted file mode"
       THEN [ read EXCEPT !.currentFile[1].changeType = "deleted" ]
       ELSE IF hm # << >> /\ Len(st.currentFile) > 0
       THEN [ read EXCEPT
                !.currentFile = pushHunk(st.currentFile, st.currentHunk),
                !.currentHunk = << DiffHunk(parseInt(hm[1]),
                                            parseInt(IF hm[2] = "" THEN "1" ELSE hm[2]),
                                            parseInt(hm[3]),
                                            parseInt(IF hm[4] = "" THEN "1" ELSE hm[4])) >> ]
       ELSE IF Len(st.currentHunk) > 0
       THEN [ read EXCEPT !.currentHunk = << addContent(st.currentHunk[1], line) >> ]
       ELSE read

\* mutant: currentFile is pushed without asking whether there is one
parseFinishAlwaysPush(st) ==
    LET lastFile == pushHunk(st.currentFile, st.currentHunk)
    IN [ st EXCEPT !.phase = "done",
                   !.currentFile = lastFile,
                   !.diffs = IF Len(lastFile) > 0 THEN Append(@, lastFile[1])
                             ELSE Append(@, FileDiff(Null, "modified", << >>, << >>)) ]

\* after the loop: the last hunk and the last file
parseFinish(st) ==
    LET lastFile == pushHunk(st.currentFile, st.currentHunk)
    IN [ st EXCEPT !.phase = "done",
                   !.currentFile = lastFile,
                   !.diffs = IF Len(lastFile) > 0 THEN Append(@, lastFile[1]) ELSE @ ]

(***************************************************************************)
(* Idle values of the state a specification does not use                   *)
(***************************************************************************)
NoGraph == [ nodes |-> << >>,
             metadata |-> [ builtAt |-> -1, rootDir |-> << >>, fileCount |-> -1 ] ]

NoBfs == [ edges |-> "none", maxDepth |-> 0, queue |-> << >>, visited |-> << >>,
           found |-> << >>, expanded |-> << >> ]

NoParser == [ phase |-> "idle", lines |-> << >>, diffs |-> << >>,
              currentFile |-> << >>, currentHunk |-> << >> ]

NoSafety == [ phase |-> "idle" ]

NoRun == [ pc |-> "idle" ]

(***************************************************************************)
(* Spec: buildDependencyGraph and the cache wire format, over every        *)
(* mapping of at most MaxFiles files holding at most MaxStmts import       *)
(* statements in all.                                                      *)
(***************************************************************************)
MaxFiles == 3
MaxStmts == 2
MaxClock == 1

Es(module) == [ form |-> "es", module |-> module ]

\* the statement 'from <module> import helper'
FromImport(module) == [ form |-> "from", module |-> module ]

BuildKeys ==
    { << "a", ".ts" >>, << ".", "/", "a", ".ts" >>, << "b", ".ts" >>, << "data", ".json" >>,
      << "d", "/", "main", ".py" >>, << "d", "/", "utils", ".py" >> }

BuildStmts ==
    { Es(<< ".", "/", "a" >>), Es(<< ".", "/", "b" >>),
      Es(<< ".", "/", "data", ".json" >>), Es(<< "react", "/", "dom" >>),
      Es(<< "@testing-library", "/", "react" >>), FromImport(<< ".", "utils" >>) }

RECURSIVE SeqsUpTo(_, _)
\* the sequences of at most n members of S
SeqsUpTo(S, n) ==
    IF n = 0 THEN { << >> }
    ELSE LET prev == SeqsUpTo(S, n - 1)
         IN prev \cup { Append(q, x) : q \in prev, x \in S }

RECURSIVE stmtCount(_)
stmtCount(fileEntries) ==
    IF Len(fileEntries) = 0 THEN 0
    ELSE Len(fileEntries[1].value) + stmtCount(Tail(fileEntries))

RootDir == << "repo" >>

BuildDone == op \in { "build", "roundtrip", "rebuild" }

\* the caller fills the mapping: files.set(path, content)
SetFile(k, content) ==
    /\ op = "input"
    /\ Len(files) < MaxFiles
    /\ ~MapHas(files, k)
    /\ stmtCount(files) + Len(content) <= MaxStmts
    /\ files' = MapSet(files, k, content)
    /\ UNCHANGED << now, graph, op, args, res, bfs, parser, safety, runst >>

Build ==
    /\ op = "input"
    /\ graph' = buildDependencyGraph(files, RootDir, now)
    /\ op' = "build"
    /\ UNCHANGED << files, now, args, res, bfs, parser, safety, runst >>

\* the clock moves on between calls
Tick ==
    /\ op = "build"
    /\ now < MaxClock
    /\ now' = now + 1
    /\ UNCHANGED << files, graph, op, args, res, bfs, parser, safety, runst >>

\* deserializeGraph(serializeGraph(graph))
RoundTrip ==
    /\ op = "build"
    /\ res' = deserializeGraph(serializeGraph(graph))
    /\ op' = "roundtrip"
    /\ UNCHANGED << files, now, graph, args, bfs, parser, safety, runst >>

\* a second run of buildDependencyGraph on the same mapping and rootDir
Rebuild ==
    /\ op = "build"
    /\ res' = buildDependencyGraph(files, RootDir, now)
    /\ op' = "rebuild"
    /\ UNCHANGED << files, now, graph, args, bfs, parser, safety, runst >>

Init ==
    /\ files = << >>
    /\ now = 0
    /\ graph = NoGraph
    /\ op = "input"
    /\ args = << >>
    /\ res = NoGraph
    /\ bfs = NoBfs
    /\ parser = NoParser
    /\ safety = NoSafety
    /\ runst = NoRun

Next ==
    \/ \E k \in BuildKeys, content \in SeqsUpTo(BuildStmts, MaxStmts) : SetFile(k, content)
    \/ Build
    \/ Tick
    \/ RoundTrip
    \/ Rebuild

Spec == Init /\ [][Next]_vars

hasEdge(g, i, j) ==
    /\ includes(g.nodes[i].value.imports, g.nodes[j].key)
    /\ includes(g.nodes[j].value.importedBy, g.nodes[i].key)

\* C1: in every built graph, for all nodes A and B, B is in A.imports if and
\* only if A is in B.importedBy.
C1_ImportsMirrorImportedBy ==
    BuildDone =>
        \A i, j \in 1..Len(graph.nodes) :
            includes(graph.nodes[i].value.imports, graph.nodes[j].key)
                <=> includes(graph.nodes[j].value.importedBy, graph.nodes[i].key)

\* a built graph in which one node imports another and a node imports itself
C1_Witness ==
    /\ BuildDone
    /\ \E i, j \in 1..Len(graph.nodes) : i # j /\ hasEdge(graph, i, j)
    /\ \E i \in 1..Len(graph.nodes) : hasEdge(graph, i, i)

\* C6: deserializeGraph(serializeGraph(g)) of a built graph g has g's node keys,
\* g's imports and importedBy lists for every node, and g's metadata.
C6_RoundTripEqual ==
    op = "roundtrip" =>
        /\ Range(MapKeys(res.nodes)) = Range(MapKeys(graph.nodes))
        /\ \A k \in Range(MapKeys(graph.nodes)) :
              /\ MapGet(res.nodes, k).imports = MapGet(graph.nodes, k).imports
              /\ MapGet(res.nodes, k).importedBy = MapGet(graph.nodes, k).importedBy
        /\ res.metadata = graph.metadata

\* a round trip of a graph with an edge between two nodes
C6_Witness ==
    /\ op = "roundtrip"
    /\ \E i, j \in 1..Len(graph.nodes) : i # j /\ hasEdge(graph, i, j)
    /\ \E i, j \in 1..Len(res.nodes) : i # j /\ hasEdge(res, i, j)

(***************************************************************************)
(* SpecBfs: findDependents and findDependencies, one loop iteration per    *)
(* step, on the graph built from four files with at most MaxEdges import   *)
(* statements between them (self-imports and cycles included).             *)
(***************************************************************************)
MaxEdges == 3
MaxDepth == 3

ReachStems == << << "a" >>, << "b" >>, << "c" >>, << "a", ".test" >> >>

ReachKey(i) == ReachStems[i] \o << ".ts" >>

ReachKeys == { ReachKey(i) : i \in 1..Len(ReachStems) }

RECURSIVE EdgeSets(_)
\* the sets of at most n edges << importer, imported >>
EdgeSets(n) ==
    IF n = 0 THEN { {} }
    ELSE LET prev == EdgeSets(n - 1)
         IN prev \cup { E \cup { e } : E \in prev,
                                       e \in (1..Len(ReachStems)) \X (1..Len(ReachStems)) }

RECURSIVE contentOf(_, _, _)
\* file i holds one import statement for every edge << i, j >>
contentOf(E, i, j) ==
    IF j > Len(ReachStems) THEN << >>
    ELSE IF << i, j >> \in E
         THEN << Es(<< ".", "/" >> \o ReachStems[j]) >> \o contentOf(E, i, j + 1)
         ELSE contentOf(E, i, j + 1)

filesOf(E) ==
    [ i \in 1..Len(ReachStems) |-> [ key |-> ReachKey(i), value |-> contentOf(E, i, 1) ] ]

\* the paths a query is asked about: every node, and one written with './'
QueryPaths == ReachKeys \cup { << ".", "/" >> \o ReachKey(1) }

\* the depths a query is asked with: the small ones and the default
QueryDepths == (0..MaxDepth) \cup { DefaultMaxDepth }

InitBfs ==
    /\ \E E \in EdgeSets(MaxEdges) :
          /\ files = filesOf(E)
          /\ graph = buildDependencyGraph(filesOf(E), RootDir, 0)
    /\ now = 0
    /\ op = "ready"
    /\ args = << >>
    /\ res = << >>
    /\ bfs = NoBfs
    /\ parser = NoParser
    /\ safety = NoSafety
    /\ runst = NoRun

\* findDependents / findDependencies is entered
Call(edges, filePath, maxDepth) ==
    /\ op = "ready"
    /\ bfs' = bfsStart(edges, filePath, maxDepth)
    /\ args' = << edges, filePath, maxDepth >>
    /\ op' = "running"
    /\ UNCHANGED << files, now, graph, res, parser, safety, runst >>

\* mutant: the loop consumes the importedBy list of the node it expands
IterateDrainingEdges ==
    /\ op = "running"
    /\ Len(bfs.queue) > 0
    /\ bfs' = bfsStep(graph, bfs)
    /\ graph' = LET path == bfs.queue[1].path
                IN IF MapHas(graph.nodes, path)
                   THEN [ graph EXCEPT !.nodes =
                            MapSet(@, path, [ MapGet(@, path) EXCEPT !.importedBy = << >> ]) ]
                   ELSE graph
    /\ UNCHANGED << files, now, op, args, res, parser, safety, runst >>

\* one iteration of the while loop
Iterate ==
    /\ op = "running"
    /\ Len(bfs.queue) > 0
    /\ bfs' = bfsStep(graph, bfs)
    /\ UNCHANGED << files, now, graph, op, args, res, parser, safety, runst >>

\* the queue is empty: return Array.from(dependents)
Return ==
    /\ op = "running"
    /\ Len(bfs.queue) = 0
    /\ res' = bfs.found
    /\ op' = "returned"
    /\ UNCHANGED << files, now, graph, args, bfs, parser, safety, runst >>

\* the caller goes on to its next query
Resume ==
    /\ op = "returned"
    /\ op' = "ready"
    /\ args' = << >>
    /\ res' = << >>
    /\ bfs' = NoBfs
    /\ UNCHANGED << files, now, graph, parser, safety, runst >>

NextBfs ==
    \/ \E edges \in { "importedBy", "imports" }, filePath \in QueryPaths,
          maxDepth \in QueryDepths : Call(edges, filePath, maxDepth)
    \/ Iterate
    \/ Return
    \/ Resume

\* the loop is synchronous code: it runs on until it returns
SpecBfs == InitBfs /\ [][NextBfs]_vars /\ WF_vars(Iterate) /\ WF_vars(Return)

(***************************************************************************)
(* SpecReach: getAffectedFiles and findRelatedTests on the same graphs     *)
(***************************************************************************)
MaxChanged == 2
MaxTests == 2

\* candidate test paths: a test named after a.ts, a plain node, and the same
\* node written with './'
TestCandidates == { ReachKey(4), ReachKey(2), << ".", "/" >> \o ReachKey(2) }

GetAffectedFiles(changedFiles) ==
    /\ op = "ready"
    /\ res' = getAffectedFiles(graph, changedFiles)
    /\ args' = << changedFiles >>
    /\ op' = "getAffectedFiles"
    /\ UNCHANGED << files, now, graph, bfs, parser, safety, runst >>

FindRelatedTests(sourceFile, testFiles) ==
    /\ op = "ready"
    /\ res' = findRelatedTests(graph, sourceFile, testFiles)
    /\ args' = << sourceFile, testFiles >>
    /\ op' = "findRelatedTests"
    /\ UNCHANGED << files, now, graph, bfs, parser, safety, runst >>

\* the caller goes on to its next query
Proceed ==
    /\ op \in { "getAffectedFiles", "findRelatedTests" }
    /\ op' = "ready"
    /\ args' = << >>
    /\ res' = << >>
    /\ UNCHANGED << files, now, graph, bfs, parser, safety, runst >>

NextReach ==
    \/ \E changedFiles \in SeqsUpTo(QueryPaths, MaxChanged) : GetAffectedFiles(changedFiles)
    \/ \E sourceFile \in ReachKeys, testFiles \in SeqsUpTo(TestCandidates, MaxTests) :
          FindRelatedTests(sourceFile, testFiles)
    \/ Proceed

SpecReach == InitBfs /\ [][NextReach]_vars

RECURSIVE within(_, _, _, _)
\* the paths at most n edges away from a path of S
within(g, edges, S, n) ==
    IF n = 0 THEN S
    ELSE within(g, edges,
                S \cup UNION { Range(neighbours(g, edges, x)) :
                                 x \in { y \in S : MapHas(g.nodes, y) } },
                n - 1)

noDuplicates(seq) == \A i, j \in 1..Len(seq) : i # j => seq[i] # seq[j]

\* A imports B imports C imports D
ChainFiles == filesOf({ << 1, 2 >>, << 2, 3 >>, << 3, 4 >> })

\* A imports B and B imports A
CycleFiles == filesOf({ << 1, 2 >>, << 2, 1 >> })

\* C2: findDependents(graph, p, k) (findDependencies likewise) returns exactly
\* the nodes whose shortest distance from p is between 1 and k; on the chain
\* A imports B imports C imports D, findDependents(graph, 'D', 1) is ['C'].
C2_ExactlyWithinMaxDepth ==
    op = "returned" =>
        /\ Range(res) = within(graph, args[1], { normalizePath(args[2]) }, args[3])
                          \ { normalizePath(args[2]) }
        /\ (files = ChainFiles /\ args = << "importedBy", ReachKey(4), 1 >>)
              => res = << ReachKey(3) >>

\* C5: no node is expanded twice, every call returns, and on the two-node cycle
\* findDependents(graph, 'A', 10) returns ['B'].
C5_ExpandOnceAndTerminate ==
    /\ [](noDuplicates(bfs.expanded))
    /\ []((op = "returned" /\ files = CycleFiles
             /\ args = << "importedBy", ReachKey(1), DefaultMaxDepth >>)
           => res = << ReachKey(2) >>)
    /\ (op = "running" ~> op = "returned")

\* findDependents(graph, 'A', 10) has returned ['B'] on the two-node cycle
C5_Witness ==
    /\ op = "returned"
    /\ files = CycleFiles
    /\ args = << "importedBy", ReachKey(1), DefaultMaxDepth >>
    /\ bfs.expanded = << ReachKey(1), ReachKey(2) >>
    /\ res = << ReachKey(2) >>

\* C10: the result of findDependents and of findDependencies never contains
\* the normalized start path.
C10_StartNotInResult ==
    op = "returned" => ~includes(res, normalizePath(args[2]))

\* a query from './a.ts', which imports itself and lies on a cycle, has returned
C10_Witness ==
    /\ op = "returned"
    /\ args[2] = << ".", "/" >> \o ReachKey(1)
    /\ includes(MapGet(graph.nodes, ReachKey(1)).importedBy, ReachKey(1))
    /\ includes(MapGet(graph.nodes, ReachKey(1)).importedBy, ReachKey(2))
    /\ includes(MapGet(graph.nodes, ReachKey(2)).importedBy, ReachKey(1))
    /\ res = << ReachKey(2) >>

\* C4: no path is in both directlyAffected and transitivelyAffected.
C4_DirectTransitiveDisjoint ==
    op = "getAffectedFiles" =>
        Range(res.directlyAffected) \cap Range(res.transitivelyAffected) = {}

\* C9: findRelatedTests returns no path more than once.
C9_NoDuplicateTests ==
    op = "findRelatedTests" => noDuplicates(res)

(***************************************************************************)
(* Specification SpecDiff: parseDiffString reads the lines of a raw diff   *)
(* one by one.  The raw diffs are all sequences of at most MaxLines lines  *)
(* over DiffLines, and the two-file diff TwoFileDiff.                      *)
(***************************************************************************)
MaxLines == 3

\* the header line git writes for the paths old and new
fileHeader(old, new) == << "diff --git a/" >> \o old \o << " b/" >> \o new

hunkHeader(oldStart, oldLines, newStart, newLines) ==
    << "@@ -", oldStart, ",", oldLines, " +", newStart, ",", newLines, " @@" >>

\* the (old, new) paths of the file headers; the last is a file in a
\* directory named 'lib b'
HeaderPaths ==
    { << << "f" >>, << "f" >> >>, << << "f" >>, << "g" >> >>,
      << << "lib", " b/", "f" >>, << "lib", " b/", "f" >> >> }

DiffLines ==
    { fileHeader(h[1], h[2]) : h \in HeaderPaths }
    \cup
    { << "new file mode", " 100644" >>, << "deleted file mode", " 100644" >>,
      hunkHeader("10", "6", "10", "8"), hunkHeader("0", "0", "1", "2"),
      << "@@ -", "1", " +", "1", " @@", " ctx" >>,
      << "+", "x" >>, << "-", "y" >>, << " ", "z" >>, << >>,
      << "+++", " b/", "f" >>, << "---", " a/", "f" >>,
      << "@@ -", "1", " +" >>, << "diff --git a/", "f" >> }

\* two file blocks, each with one hunk of two additions and one deletion
TwoFileDiff ==
    << fileHeader(<< "f" >>, << "f" >>), hunkHeader("10", "6", "10", "8"),
       << " ", "z" >>, << "+", "x" >>, << "+", "x" >>, << "-", "y" >>,
       fileHeader(<< "f" >>, << "g" >>), hunkHeader("10", "6", "10", "8"),
       << "+", "x" >>, << "+", "x" >>, << "-", "y" >> >>

isPrefix(s, t) == Len(s) <= Len(t) /\ s = SubSeq(t, 1, Len(s))

InitDiff ==
    /\ files = << >>
    /\ now = 0
    /\ graph = NoGraph
    /\ op = "parseDiffString"
    /\ args = << >>
    /\ res = << >>
    /\ bfs = NoBfs
    /\ parser = parserStart
    /\ safety = NoSafety
    /\ runst = NoRun

\* one iteration of the loop over rawDiff.split('\n')
ReadLine(line) ==
    /\ parser.phase = "reading"
    /\ \/ Len(parser.lines) < MaxLines
       \/ isPrefix(Append(parser.lines, line), TwoFileDiff)
    /\ parser' = parseLine(parser, line)
    /\ UNCHANGED << files, now, graph, op, args, res, bfs, safety, runst >>

\* the loop ends and parseDiffString returns diffs
EndOfInput ==
    /\ parser.phase = "reading"
    /\ parser' = parseFinish(parser)
    /\ res' = parser'.diffs
    /\ UNCHANGED << files, now, graph, op, args, bfs, safety, runst >>

NextDiff ==
    \/ \E line \in DiffLines : ReadLine(line)
    \/ EndOfInput

SpecDiff == InitDiff /\ [][NextDiff]_vars

\* the positions of the file header lines of a raw diff
fileHeaderPositions(lines) == { i \in 1..Len(lines) : fileMatch(lines[i]) # << >> }

\* the last line of the file block that starts at position p
blockEnd(lines, p) ==
    IF \E q \in fileHeaderPositions(lines) : q > p
    THEN (CHOOSE q \in fileHeaderPositions(lines) :
              q > p /\ \A r \in fileHeaderPositions(lines) : r > p => q <= r) - 1
    ELSE Len(lines)

\* the number of hunk header lines in the file block that starts at position p
hunkHeadersInBlock(lines, p) ==
    Cardinality({ j \in (p + 1)..blockEnd(lines, p) : hunkMatch(lines[j]) # << >> })

\* the position of the k-th file header line
kthFileHeader(lines, k) ==
    CHOOSE p \in fileHeaderPositions(lines) :
        Cardinality({ q \in fileHeaderPositions(lines) : q <= p }) = k

\* C3: the result has one FileDiff per file block, each with as many hunks
\* as hunk headers appeared in its block; the two-file diff gives two
\* FileDiffs with one hunk of two additions and one deletion each.
C3_NoHunkLost ==
    parser.phase = "done" =>
        /\ Len(res) = Cardinality(fileHeaderPositions(parser.lines))
        /\ \A k \in 1..Len(res) :
               Len(res[k].hunks) = hunkHeadersInBlock(parser.lines, kthFileHeader(parser.lines, k))
        /\ parser.lines = TwoFileDiff =>
               /\ Len(res) = 2
               /\ \A k \in 1..2 :
                      /\ Len(res[k].hunks) = 1
                      /\ Len(res[k].hunks[1].additions) = 2
                      /\ Len(res[k].hunks[1].deletions) = 1

(***************************************************************************)
(* safety/rules.ts: applySafetyRules.  A changed file and a glob pattern   *)
(* are sequences of tokens; the glob tokens are "**/", "**", "*" and "?",  *)
(* every other token of a pattern is literal text.  A test is a string.    *)
(* confidence and confidenceThreshold are percentages, maxSkipRatio is a   *)
(* number of hundredths.                                                   *)
(***************************************************************************)
RECURSIVE globMatch(_, _)
\* new RegExp('^' + regexPattern + '$').test(file)
globMatch(file, pattern) ==
    IF pattern = << >> THEN file = << >>
    ELSE LET rest(i) == SubSeq(file, i + 1, Len(file))
         IN CASE pattern[1] = "**/" ->
                   \/ globMatch(file, Tail(pattern))
                   \/ \E i \in 1..Len(file) : file[i] = "/" /\ globMatch(rest(i), Tail(pattern))
              [] pattern[1] = "**" ->
                   \E i \in 0..Len(file) : globMatch(rest(i), Tail(pattern))
              [] pattern[1] = "*" ->
                   \E i \in 0..Len(file) :
                       /\ \A j \in 1..i : file[j] # "/"
                       /\ globMatch(rest(i), Tail(pattern))
              [] pattern[1] = "?" ->
                   /\ file # << >>
                   /\ file[1] \in { "/", "a" }
                   /\ globMatch(Tail(file), Tail(pattern))
              [] OTHER ->
                   /\ file # << >>
                   /\ file[1] = pattern[1]
                   /\ globMatch(Tail(file), Tail(pattern))

matchesAlwaysRunPattern(changedFiles, patterns) ==
    \E i \in 1..Len(changedFiles) : \E j \in 1..Len(patterns) :
        globMatch(changedFiles[i], patterns[j])

\* s.filter(t => !excluded.includes(t))
filterOut(s, excluded) == SelectSeq(s, LAMBDA t : ~includes(excluded, t))

fullSuiteOfSelection(selection, allTests, reason) ==
    [ allowSkipping |-> FALSE, reason |-> reason,
      originalTests |-> selection.testsToRun,
      finalTests |-> selection.testsToRun,
      addedTests |-> << >>, warnings |-> << >> ]

\* an early return of the whole suite, with skipping off
fullSuite(selection, allTests, reason) ==
    [ allowSkipping |-> FALSE, reason |-> reason,
      originalTests |-> selection.testsToRun,
      finalTests |-> allTests,
      addedTests |-> filterOut(allTests, selection.testsToRun),
      warnings |-> << >> ]

RECURSIVE addCriticalTests(_, _, _)
\* Rule 4, from a state [finalTests, addedTests, warnings]
addCriticalTests(st, criticalTests, allTests) ==
    IF criticalTests = << >> THEN st
    ELSE LET t == Head(criticalTests)
             next == IF includes(st.finalTests, t) THEN st
                     ELSE IF includes(allTests, t)
                     THEN [ st EXCEPT !.finalTests = Append(@, t), !.addedTests = Append(@, t) ]
                     ELSE [ st EXCEPT !.warnings = Append(@, "Critical test not found") ]
         IN addCriticalTests(next, Tail(criticalTests), allTests)

\* Rule 5
removeSkipTests(st, skipTests) ==
    IF Len(skipTests) > 0
    THEN LET kept == filterOut(st.finalTests, skipTests)
         IN [ st EXCEPT !.finalTests = kept,
                        !.warnings = IF Len(st.finalTests) # Len(kept)
                                     THEN Append(@, "Removed skipped test(s)") ELSE @ ]
    ELSE st

\* Math.ceil(n * (1 - maxSkipRatio))
minTestsOf(n, maxSkipRatio) == ((n * (100 - maxSkipRatio)) + 99) \div 100

\* Rule 6; with no tests at all the ratio is not a number and nothing is added
enforceMaxSkipRatio(st, allTests, maxSkipRatio) ==
    LET n == Len(allTests)
        neededTests == minTestsOf(n, maxSkipRatio) - Len(st.finalTests)
        availableTests == filterOut(allTests, st.finalTests)
        additionalTests ==
            SubSeq(availableTests, 1,
                   IF neededTests < Len(availableTests) THEN neededTests ELSE Len(availableTests))
    IN IF n > 0 /\ 100 * (n - Len(st.finalTests)) > maxSkipRatio * n /\ neededTests > 0
       THEN [ st EXCEPT !.finalTests = @ \o additionalTests,
                        !.addedTests = @ \o additionalTests,
                        !.warnings = Append(@, "Added test(s) to meet max skip ratio") ]
       ELSE st

applySafetyRules(selection, allTests, changedFiles, config) ==
    LET st == enforceMaxSkipRatio(
                  removeSkipTests(
                      addCriticalTests([ finalTests |-> selection.testsToRun,
                                         addedTests |-> << >>, warnings |-> << >> ],
                                       config.criticalTests, allTests),
                      config.skipTests),
                  allTests, config.maxSkipRatio)
    IN IF matchesAlwaysRunPattern(changedFiles, config.alwaysRunPatterns)
       THEN fullSuite(selection, allTests, "Always-run pattern matched")
       ELSE IF selection.confidence < config.confidenceThreshold
       THEN fullSuite(selection, allTests, "Confidence below threshold")
       ELSE IF selection.runAll
       THEN fullSuite(selection, allTests,
                      IF selection.reasoning # "" THEN selection.reasoning
                      ELSE "LLM recommended running all tests")
       ELSE IF config.shadowMode
       THEN [ allowSkipping |-> FALSE, reason |-> "Shadow mode enabled",
              originalTests |-> selection.testsToRun,
              finalTests |-> allTests,
              addedTests |-> filterOut(allTests, st.finalTests),
              warnings |-> << "Shadow mode: Would have run", "Shadow mode: Would have skipped" >> ]
       ELSE [ allowSkipping |-> TRUE, reason |-> "Confidence meets threshold",
              originalTests |-> selection.testsToRun,
              finalTests |-> st.finalTests,
              addedTests |-> st.addedTests,
              warnings |-> st.warnings ]

(***************************************************************************)
(* Specification SpecSafety: a selection, the test list, the changed files *)
(* and a configuration arrive, and applySafetyRules is called on them.     *)
(***************************************************************************)
MaxSelected == 2
MaxAllTests == 3

TestName(i) == << "t1", "t2", "t3", "t4", "t5" >>[i]

\* the DEFAULT_CONFIG threshold
DefaultConfidenceThreshold == 80

Selections ==
    [ testsToRun : SeqsUpTo({ TestName(1), "unknown" }, MaxSelected),
      runAll : BOOLEAN,
      confidence : { DefaultConfidenceThreshold - 1, DefaultConfidenceThreshold },
      reasoning : { "Only one file changed" },
      timeSavedEstimate : { 100 } ]

AllTestLists == { [ i \in 1..n |-> TestName(i) ] : n \in 0..MaxAllTests }

ChangedFileLists == SeqsUpTo({ << "package.json" >>, << "src", "/", "a", ".ts" >> }, 1)

Configs ==
    [ alwaysRunPatterns : SeqsUpTo({ << "package.json" >>, << "**/", "*", ".ts" >> }, 1),
      confidenceThreshold : { 50, DefaultConfidenceThreshold },
      shadowMode : BOOLEAN,
      criticalTests : SeqsUpTo({ TestName(2), "missing" }, 1),
      skipTests : SeqsUpTo({ TestName(1), TestName(2) }, 1),
      maxSkipRatio : { 0, 50, 100 } ]

InitSafety ==
    /\ files = << >>
    /\ now = 0
    /\ graph = NoGraph
    /\ op = "idle"
    /\ args = << >>
    /\ res = << >>
    /\ bfs = NoBfs
    /\ parser = NoParser
    /\ safety = [ phase |-> "select" ]
    /\ runst = NoRun

\* the selection arrives
Select(selection) ==
    /\ safety.phase = "select"
    /\ safety' = [ phase |-> "selected", selection |-> selection ]
    /\ UNCHANGED << files, now, graph, op, args, res, bfs, parser, runst >>

ApplySafetyRules(allTests, changedFiles, config) ==
    /\ safety.phase = "selected"
    /\ safety' = [ phase |-> "done", selection |-> safety.selection, allTests |-> allTests,
                   changedFiles |-> changedFiles, config |-> config ]
    /\ op' = "applySafetyRules"
    /\ res' = applySafetyRules(safety.selection, allTests, changedFiles, config)
    /\ UNCHANGED << files, now, graph, args, bfs, parser, runst >>

NextSafety ==
    \/ \E selection \in Selections : Select(selection)
    \/ \E allTests \in AllTestLists, changedFiles \in ChangedFileLists, config \in Configs :
           ApplySafetyRules(allTests, changedFiles, config)

SpecSafety == InitSafety /\ [][NextSafety]_vars

\* C7: an always-run match, a confidence below the threshold, runAll or
\* shadow mode each give allowSkipping = FALSE with finalTests = allTests,
\* and every result with allowSkipping = FALSE has finalTests = allTests.
C7_NoSkippingMeansAllTests ==
    safety.phase = "done" =>
        /\ ( \/ matchesAlwaysRunPattern(safety.changedFiles, safety.config.alwaysRunPatterns)
             \/ safety.selection.confidence < safety.config.confidenceThreshold
             \/ safety.selection.runAll
             \/ safety.config.shadowMode )
           => (res.allowSkipping = FALSE /\ res.finalTests = safety.allTests)
        /\ res.allowSkipping = FALSE => res.finalTests = safety.allTests

\* runAll alone has turned a one-test selection into the suite of three
C7_Witness ==
    /\ safety.phase = "done"
    /\ safety.selection.testsToRun = << TestName(1) >>
    /\ safety.selection.runAll
    /\ safety.selection.confidence >= safety.config.confidenceThreshold
    /\ ~matchesAlwaysRunPattern(safety.changedFiles, safety.config.alwaysRunPatterns)
    /\ ~safety.config.shadowMode
    /\ safety.allTests = << TestName(1), TestName(2), TestName(3) >>
    /\ res.allowSkipping = FALSE
    /\ res.finalTests = safety.allTests

(***************************************************************************)
(* detection/testFiles.ts, diff/git.ts, llm/client.ts and index.ts: the    *)
(* entry point run() and the selection by the language model.              *)
(***************************************************************************)
JsExts == { ".js", ".jsx", ".ts", ".tsx" }

\* some pattern of FRAMEWORK_PATTERNS matches: detectTestFile is not null
detectTestFile(filePath) ==
    LET n == Len(filePath)
        endsWith(a, b) == n >= 2 /\ filePath[n - 1] = a /\ filePath[n] \in b
        under(dir, b) == \E i \in 1..(n - 2) :
                             filePath[i] = dir /\ filePath[i + 1] = "/" /\ filePath[n] \in b
    IN \/ endsWith(".test", JsExts) \/ endsWith(".spec", JsExts)
       \/ under("__tests__", JsExts) \/ under("test", JsExts)
       \/ \E i \in 1..(n - 1) : filePath[i] = "test_" /\ filePath[n] = ".py"
       \/ endsWith("_test", { ".py" }) \/ under("tests", { ".py" })
       \/ endsWith("_test", { ".go" })
       \/ endsWith("_spec", { ".rb" })

findTestFiles(changedFiles) == SelectSeq(changedFiles, detectTestFile)

findSourceFiles(changedFiles) == SelectSeq(changedFiles, LAMBDA f : ~detectTestFile(f))

RECURSIVE trim(_)
\* line.trim(): the blanks at both ends go
trim(line) ==
    IF line # << >> /\ Head(line) = " " THEN trim(Tail(line))
    ELSE IF line # << >> /\ Last(line) = " " THEN trim(SubSeq(line, 1, Len(line) - 1))
    ELSE line

RECURSIVE mapTrim(_)
mapTrim(lines) == IF lines = << >> THEN << >> ELSE << trim(Head(lines)) >> \o mapTrim(Tail(lines))

\* output.split('\n').map(line => line.trim()).filter(line => line.length > 0)
changedFilesOf(output) == SelectSeq(mapTrim(output), LAMBDA line : Len(line) > 0)

RECURSIVE joinSpace(_)
\* paths.join(' ')
joinSpace(paths) ==
    IF paths = << >> THEN << >>
    ELSE IF Len(paths) = 1 THEN paths[1]
    ELSE paths[1] \o << " " >> \o joinSpace(Tail(paths))

\* index.ts has its own copy of the glob matcher, the same text as globMatch
matchesPattern(file, pattern) == globMatch(file, pattern)

\* not null
checkAlwaysRunPatterns(changedFiles, patterns) ==
    \E i \in 1..Len(changedFiles) : \E j \in 1..Len(patterns) :
        matchesPattern(changedFiles[i], patterns[j])

\* the three outputs of a run of the whole suite
runAllOutputs(outputs) ==
    MapSet(MapSet(MapSet(outputs, "run-all", << "true" >>), "tests-to-run", << >>),
           "tests-skipped", << "0" >>)

\* the outputs of the analysis at the end of run()
analysisOutputs(outputs, changedFiles) ==
    LET tests == findTestFiles(changedFiles)
        o1 == MapSet(outputs, "run-all", << "false" >>)
        o2 == MapSet(o1, "tests-to-run", joinSpace(tests))
        o3 == MapSet(o2, "tests-skipped", << "0" >>)
        o4 == MapSet(o3, "time-saved-estimate", << "0" >>)
        o5 == MapSet(o4, "changed-source-files", joinSpace(findSourceFiles(changedFiles)))
    IN MapSet(o5, "changed-test-files", joinSpace(tests))

\* the selection that asks for the whole suite
runAllSelection(reasoning) ==
    [ testsToRun |-> << >>, runAll |-> TRUE, confidence |-> 0,
      reasoning |-> reasoning, timeSavedEstimate |-> 0 ]

Blank == { " ", "\n" }

RECURSIVE trimBlank(_)
trimBlank(text) ==
    IF text # << >> /\ Head(text) \in Blank THEN trimBlank(Tail(text))
    ELSE IF text # << >> /\ Last(text) \in Blank THEN trimBlank(SubSeq(text, 1, Len(text) - 1))
    ELSE text

\* JSON.parse over the JSON texts of the model: << value >>, or << >> for a
\* SyntaxError.  An object is a function from its keys to their values.
JSONparse(text) ==
    LET t == trimBlank(text)
    IN IF Len(t) # 1 THEN << >>
       ELSE CASE t[1] = "{full}" ->
                   << [ kind |-> "object",
                        fields |-> [ testsToRun |-> << "t1" >>, runAll |-> FALSE,
                                     confidence |-> 90, reasoning |-> "Only t1 affected",
                                     timeSavedEstimate |-> 100 ] ] >>
              [] t[1] = "{runAll}" ->
                   << [ kind |-> "object", fields |-> [ runAll |-> TRUE ] ] >>
              [] t[1] = "{}" -> << [ kind |-> "object", fields |-> << >> ] >>
              [] t[1] = "42" -> << [ kind |-> "number", fields |-> << >> ] >>
              [] t[1] = "null" -> << [ kind |-> "null", fields |-> << >> ] >>
              [] OTHER -> << >>

\* parsed.name ?? dflt (no field of the model's texts is falsy but runAll,
\* which is only read with ??)
fieldOr(parsed, name, dflt) ==
    IF name \in DOMAIN parsed.fields THEN parsed.fields[name] ELSE dflt

\* the selection built from a parsed value, << >> when reading a property
\* of null throws
selectionOf(parsedOpt) ==
    IF parsedOpt = << >> \/ parsedOpt[1].kind = "null" THEN << >>
    ELSE LET parsed == parsedOpt[1]
         IN << [ testsToRun |-> fieldOr(parsed, "testsToRun", << >>),
                 runAll |-> fieldOr(parsed, "runAll", FALSE),
                 confidence |-> fieldOr(parsed, "confidence", 50),
                 reasoning |-> fieldOr(parsed, "reasoning", "No reasoning provided"),
                 timeSavedEstimate |-> fieldOr(parsed, "timeSavedEstimate", 0) ] >>

\* response.match of a json code fence, then blanks, a lazy group 1, blanks
\* and a closing fence: << group 1 >>, or << >>.  A fence (three backquotes)
\* is written '''.
jsonMatch(response) ==
    LET opens == { i \in 1..Len(response) : response[i] = "'''json" }
        closes(i) == { j \in (i + 1)..Len(response) : response[j] \in { "'''", "'''json" } }
    IN IF \E i \in opens : closes(i) # {}
       THEN LET i == CHOOSE k \in opens : closes(k) # {} /\ \A l \in opens : closes(l) # {} => k <= l
                j == CHOOSE k \in closes(i) : \A l \in closes(i) : k <= l
            IN << trimBlank(SubSeq(response, i + 1, j - 1)) >>
       ELSE << >>

parseTestSelectionResponse(response) ==
    LET m == jsonMatch(response)
        fromBlock == IF m # << >> THEN selectionOf(JSONparse(m[1])) ELSE << >>
        fromWhole == selectionOf(JSONparse(response))
    IN IF fromBlock # << >> THEN fromBlock[1]
       ELSE IF fromWhole # << >> THEN fromWhole[1]
       ELSE runAllSelection("Failed to parse LLM response - running all tests for safety")

\* outcome of anthropic.messages.create: it throws, it answers without a
\* text block, or it answers with a text
selectTestsWithClaude(outcome) ==
    IF outcome.kind = "apiError" THEN runAllSelection("API error")
    ELSE IF outcome.kind = "noText" THEN runAllSelection("No text response from Claude")
    ELSE parseTestSelectionResponse(outcome.text)

DEFAULT_CONFIG ==
    [ alwaysRunPatterns |-> << << "package.json" >>, << "*", ".config.js" >>,
                               << ".github", "/", "**" >> >>,
      confidenceThreshold |-> DefaultConfidenceThreshold,
      shadowMode |-> FALSE,
      criticalTests |-> << >>,
      skipTests |-> << >>,
      maxSkipRatio |-> 90 ]

(***************************************************************************)
(* Specification SpecRun: one run of the entry point (the three git        *)
(* commands of getChangedFiles each succeed or fail) or one selection by   *)
(* the language model followed by the safety rules.                        *)
(***************************************************************************)
MaxStdout == 2

StdoutLines ==
    { << >>, << "package.json" >>, << " ", "src", "/", "a", ".test", ".ts" >>,
      << "src", "/", "a", ".ts" >> }

PatternInputs ==
    { << << >> >>, << << "package.json" >> >>, << << "**/", "*", ".ts" >> >> }

Responses ==
    { << >>, << "{full}" >>, << "{runAll}" >>, << "{}" >>, << "42" >>, << "null" >>,
      << "Sorry, I cannot decide." >>,
      << "Here:", "\n", "'''json", "\n", "{full}", "\n", "'''" >>,
      << "'''json", "{", "'''" >>,
      << "'''json", "null", "'''" >>,
      << "'''json", "{full}" >> }

ClaudeOutcomes ==
    { [ kind |-> "apiError", text |-> << >> ], [ kind |-> "noText", text |-> << >> ] }
    \cup { [ kind |-> "text", text |-> r ] : r \in Responses }

runStart ==
    [ pc |-> "start", alwaysRunPatterns |-> << >>, changedFiles |-> << >>,
      outputs |-> << >>, failed |-> "", error |-> "" ]

InitRun ==
    /\ files = << >>
    /\ now = 0
    /\ graph = NoGraph
    /\ op = "idle"
    /\ args = << >>
    /\ res = << >>
    /\ bfs = NoBfs
    /\ parser = NoParser
    /\ safety = NoSafety
    /\ runst = runStart

\* run() reads its inputs
GetInputs(patterns) ==
    /\ runst.pc = "start"
    /\ runst' = [ runst EXCEPT !.pc = "origin/main", !.alwaysRunPatterns = patterns ]
    /\ op' = "run"
    /\ UNCHANGED << files, now, graph, args, res, bfs, parser, safety >>

\* one git diff --name-only of getChangedFiles succeeds with an output, or
\* fails: the next base is tried, and after HEAD~1 the error leaves
\* getChangedFiles
ExecGitDiff(ok, output) ==
    /\ runst.pc \in { "origin/main", "origin/master", "HEAD~1" }
    /\ runst' =
          IF ok
          THEN [ runst EXCEPT !.pc = "changed", !.changedFiles = changedFilesOf(output) ]
          ELSE IF runst.pc = "origin/main" THEN [ runst EXCEPT !.pc = "origin/master" ]
          ELSE IF runst.pc = "origin/master" THEN [ runst EXCEPT !.pc = "HEAD~1" ]
          ELSE [ runst EXCEPT !.pc = "catch", !.error = "git" ]
    /\ UNCHANGED << files, now, graph, op, args, res, bfs, parser, safety >>

\* no changed file, or an always-run pattern matches: the whole suite
RunAll ==
    /\ runst.pc = "changed"
    /\ \/ Len(runst.changedFiles) = 0
       \/ checkAlwaysRunPatterns(runst.changedFiles, runst.alwaysRunPatterns)
    /\ runst' = [ runst EXCEPT !.pc = "done", !.outputs = runAllOutputs(@) ]
    /\ UNCHANGED << files, now, graph, op, args, res, bfs, parser, safety >>

\* steps 3 and 4 and the outputs at the end of the try block
Analyse ==
    /\ runst.pc = "changed"
    /\ Len(runst.changedFiles) # 0
    /\ ~checkAlwaysRunPatterns(runst.changedFiles, runst.alwaysRunPatterns)
    /\ runst' = [ runst EXCEPT !.pc = "done",
                               !.outputs = analysisOutputs(@, runst.changedFiles) ]
    /\ UNCHANGED << files, now, graph, op, args, res, bfs, parser, safety >>

\* the catch block of run()
Catch ==
    /\ runst.pc = "catch"
    /\ runst' = [ runst EXCEPT !.pc = "done", !.failed = "SmartCI failed" ]
    /\ UNCHANGED << files, now, graph, op, args, res, bfs, parser, safety >>

\* selectTestsWithClaude, then applySafetyRules on its selection
SelectTestsWithClaude(outcome, allTests) ==
    /\ runst.pc = "start"
    /\ LET selection == selectTestsWithClaude(outcome)
       IN /\ safety' = [ phase |-> "done", selection |-> selection, allTests |-> allTests,
                         changedFiles |-> << >>, config |-> DEFAULT_CONFIG ]
          /\ res' = applySafetyRules(selection, allTests, << >>, DEFAULT_CONFIG)
    /\ runst' = [ runst EXCEPT !.pc = "selected",
                               !.error = IF outcome.kind = "apiError" THEN "api"
                                         ELSE IF outcome.kind = "noText" THEN "noText"
                                         ELSE IF selectionOf(JSONparse(outcome.text)) = << >>
                                                 /\ ( jsonMatch(outcome.text) = << >>
                                                      \/ selectionOf(JSONparse(jsonMatch(outcome.text)[1])) = << >> )
                                         THEN "parse" ELSE "" ]
    /\ op' = "selectTestsWithClaude"
    /\ args' = << outcome >>
    /\ UNCHANGED << files, now, graph, bfs, parser >>

NextRun ==
    \/ \E patterns \in PatternInputs : GetInputs(patterns)
    \/ \E ok \in BOOLEAN, output \in SeqsUpTo(StdoutLines, MaxStdout) : ExecGitDiff(ok, output)
    \/ RunAll
    \/ Analyse
    \/ Catch
    \/ \E outcome \in ClaudeOutcomes, allTests \in AllTestLists :
           SelectTestsWithClaude(outcome, allTests)

SpecRun == InitRun /\ [][NextRun]_vars

\* C8: any error ends in the whole suite: after an error inside run() the
\* run-all output is 'true', and after an error of the selection (API error,
\* no parseable response) the selection has runAll = TRUE and the safety
\* rules return all tests.
C8_AnyErrorRunsAll ==
    /\ (runst.pc = "done" /\ runst.error # "") =>
           (MapHas(runst.outputs, "run-all") /\ MapGet(runst.outputs, "run-all") = << "true" >>)
    /\ (runst.pc = "selected" /\ runst.error # "") =>
           (safety.selection.runAll /\ res.finalTests = safety.allTests)

(***************************************************************************)
(* Further properties of the built graph (specification Spec)              *)
(***************************************************************************)
\* the position in the mapping of the file whose node has key k: the last
\* file of a recognised language that normalizes to k
sourceOfNode(k) ==
    CHOOSE i \in 1..Len(files) :
        /\ normalizePath(files[i].key) = k
        /\ detectLanguage(files[i].key) # "unknown"
        /\ \A j \in (i + 1)..Len(files) :
               ~(normalizePath(files[j].key) = k /\ detectLanguage(files[j].key) # "unknown")

\* the ImportInfo records of the file at position i
importsOfFile(i) ==
    IF detectLanguage(files[i].key) = "typescript"
    THEN parseTypeScriptImports(files[i].value)
    ELSE parsePythonImports(files[i].value)

\* C11: every path listed in a node's imports is the key of a node, and that
\* node's importedBy contains the importing node.
C11_NoDanglingEdge ==
    BuildDone =>
        \A i \in 1..Len(graph.nodes) :
            \A b \in Range(graph.nodes[i].value.imports) :
                /\ MapHas(graph.nodes, b)
                /\ includes(MapGet(graph.nodes, b).importedBy, graph.nodes[i].key)

\* C12: no node's path is in its own imports or in its own importedBy.
C12_NoSelfEdge ==
    BuildDone =>
        \A i \in 1..Len(graph.nodes) :
            /\ ~includes(graph.nodes[i].value.imports, graph.nodes[i].key)
            /\ ~includes(graph.nodes[i].value.importedBy, graph.nodes[i].key)

\* C13: imports lists every resolved target once, in first-seen order, and
\* importedBy lists every importer once.
C13_ImportsOrderedSet ==
    BuildDone =>
        \A i \in 1..Len(graph.nodes) :
            LET infos    == importsOfFile(sourceOfNode(graph.nodes[i].key))
                resolved == [ n \in 1..Len(infos) |->
                                IF infos[n].isRelative
                                THEN resolveModulePath(infos[n].module, graph.nodes[i].key,
                                                       Range(MapKeys(files)))
                                ELSE Null ]
                targets  == SelectSeq(resolved, LAMBDA t : t # Null)
            IN /\ noDuplicates(graph.nodes[i].value.imports)
               /\ graph.nodes[i].value.imports = SetAddAll(<< >>, targets)
               /\ noDuplicates(graph.nodes[i].value.importedBy)

\* the package name of a non-relative specifier: its first segment, or its
\* first two segments joined by '/' when it begins with '@'
packageNameOf(module) ==
    LET parts == splitSlash(module)
    IN IF module[1] = "@testing-library" /\ Len(parts) >= 2
       THEN parts[1] \o << "/" >> \o parts[2]
       ELSE parts[1]

\* C18: a node's externalDeps are the package names of the non-relative
\* specifiers of its file, each once in first-seen order, and only relative
\* specifiers give entries of imports.
C18_ExternalPackageNames ==
    BuildDone =>
        \A i \in 1..Len(graph.nodes) :
            LET infos    == importsOfFile(sourceOfNode(graph.nodes[i].key))
                external == SelectSeq(infos, LAMBDA imp : ~imp.isRelative)
                names    == [ n \in 1..Len(external) |-> packageNameOf(external[n].module) ]
            IN /\ graph.nodes[i].value.externalDeps = SetAddAll(<< >>, names)
               /\ Len(graph.nodes[i].value.imports) <= Len(infos) - Len(external)

isGitHeader(line) == \E h \in HeaderPaths : line = fileHeader(h[1], h[2])

pathsOfHeader(line) == CHOOSE h \in HeaderPaths : line = fileHeader(h[1], h[2])

isMarker(line) == tokenAt(line, 1) \in { "new file mode", "deleted file mode" }

isHunkHeader(line) == tokenAt(line, 1) = "@@ -" /\ includes(line, " @@")

gitHeaderPositions(lines) == { i \in 1..Len(lines) : isGitHeader(lines[i]) }

\* the position of the k-th file header
kthGitHeader(lines, k) ==
    CHOOSE p \in gitHeaderPositions(lines) :
        Cardinality({ q \in gitHeaderPositions(lines) : q <= p }) = k

\* the positions of the marker lines of the block that starts at position p
markersOfBlock(lines, p) ==
    { i \in (p + 1)..Len(lines) :
        /\ isMarker(lines[i])
        /\ \A q \in gitHeaderPositions(lines) : q <= p \/ q > i }

\* the changeType the marker line asks for
changeTypeOfMarker(line) == IF line[1] = "new file mode" THEN "added" ELSE "deleted"

\* C14: a FileDiff carries an oldPath only if its changeType is 'renamed'.
C14_OldPathOnlyIfRenamed ==
    parser.phase = "done" =>
        \A k \in 1..Len(res) : Len(res[k].oldPath) > 0 => res[k].changeType = "renamed"

\* C15: the k-th FileDiff has the new path of the k-th file header; without
\* a marker line in its block it is 'renamed' with oldPath the old path when
\* the paths differ and 'modified' otherwise; with marker lines it is
\* 'added' or 'deleted' as the (last) marker says.
C15_PathAndChangeType ==
    parser.phase = "done" =>
        /\ Len(res) = Cardinality(gitHeaderPositions(parser.lines))
        /\ \A k \in 1..Len(res) :
              LET p  == kthGitHeader(parser.lines, k)
                  h  == pathsOfHeader(parser.lines[p])
                  ms == markersOfBlock(parser.lines, p)
              IN /\ res[k].path = h[2]
                 /\ IF ms = {}
                    THEN IF h[1] # h[2]
                         THEN res[k].changeType = "renamed" /\ res[k].oldPath = << h[1] >>
                         ELSE res[k].changeType = "modified"
                    ELSE res[k].changeType =
                             changeTypeOfMarker(parser.lines[CHOOSE m \in ms : \A n \in ms : n <= m])

\* the first character of the line is c
beginsWith(line, c) ==
    \/ tokenAt(line, 1) = c
    \/ tokenAt(line, 1) = << "+++", "---" >>[IF c = "+" THEN 1 ELSE 2]

\* line.substring(1)
withoutFirstChar(line) ==
    IF line[1] = "+++" THEN << "++" >> \o Tail(line)
    ELSE IF line[1] = "---" THEN << "--" >> \o Tail(line)
    ELSE Tail(line)

\* the lines of content that begin with c, without that character
prefixed(content, c) ==
    LET sel == SelectSeq(content, LAMBDA l : beginsWith(l, c))
    IN [ i \in 1..Len(sel) |-> withoutFirstChar(sel[i]) ]

\* C16: in every emitted hunk, content is as long as additions, deletions
\* and the context lines (blank or beginning with a space) together, and
\* additions (deletions) is the content lines beginning with '+' ('-')
\* without that character.
C16_HunkContentPartition ==
    parser.phase = "done" =>
        \A k \in 1..Len(res) : \A n \in 1..Len(res[k].hunks) :
            LET hunk == res[k].hunks[n]
                ctx  == SelectSeq(hunk.content, LAMBDA l : l = << >> \/ tokenAt(l, 1) = " ")
            IN /\ Len(hunk.content) = Len(hunk.additions) + Len(hunk.deletions) + Len(ctx)
               /\ hunk.additions = prefixed(hunk.content, "+")
               /\ hunk.deletions = prefixed(hunk.content, "-")

\* a hunk with a context line, two additions and a deletion was emitted
C16_Witness ==
    /\ parser.phase = "done"
    /\ \E k \in 1..Len(res) : \E n \in 1..Len(res[k].hunks) :
          /\ Len(res[k].hunks[n].content) = 4
          /\ Len(res[k].hunks[n].additions) = 2
          /\ Len(res[k].hunks[n].deletions) = 1

\* C20: parseDiffString can always finish (no line makes it stop), empty
\* input gives the empty sequence, and a line that is no file header, marker
\* or hunk header and is read while no hunk is open changes no FileDiff and
\* no hunk.
C20_TotalAndIgnoresStrayLines ==
    /\ [](parser.phase = "reading" => ENABLED EndOfInput)
    /\ []((parser.phase = "done" /\ parser.lines = << >>) => res = << >>)
    /\ [][ ( /\ parser.phase = "reading"
             /\ parser'.phase = "reading"
             /\ Len(parser.currentHunk) = 0
             /\ ~isGitHeader(Last(parser'.lines))
             /\ ~isMarker(Last(parser'.lines))
             /\ ~isHunkHeader(Last(parser'.lines)) )
           => ( /\ parser'.diffs = parser.diffs
                /\ parser'.currentFile = parser.currentFile
                /\ parser'.currentHunk = parser.currentHunk ) ]_vars

\* a truncated hunk header and an addition line went by inside a file block
\* with no hunk open
C20_Witness ==
    /\ parser.phase = "done"
    /\ parser.lines = << fileHeader(<< "f" >>, << "f" >>), << "@@ -", "1", " +" >>, << "+", "x" >> >>
    /\ res = << FileDiff(<< "f" >>, "modified", << >>, << >>) >>

(***************************************************************************)
(* Specification SpecResolve: resolveModulePath on a specifier, an         *)
(* importing file and a set of at most MaxAvailable available files.       *)
(***************************************************************************)
MaxAvailable == 3

ResolveFiles ==
    { << "src", "/", "utils", ".ts" >>, << "src", "/", "utils", "/", "index", ".ts" >>,
      << "src", "/", "utils", ".js" >>, << "src", "/", "utils", ".py" >>,
      << "src", "/", "utils" >>, << "utils", ".tsx" >> }

ResolveSpecifiers ==
    { << ".", "/", "utils" >>, << ".", "/", "utils", ".js" >>, << ".", "/", "utils", "/" >>,
      << "..", "/", "src", "/", "utils" >>, << "utils" >> }

ResolveFrom == { << "src", "/", "index", ".ts" >>, << "index", ".ts" >> }

InitResolve ==
    /\ files = << >>
    /\ now = 0
    /\ graph = NoGraph
    /\ op = "idle"
    /\ args = << >>
    /\ res = Null
    /\ bfs = NoBfs
    /\ parser = NoParser
    /\ safety = NoSafety
    /\ runst = NoRun

ResolveModulePath(importPath, fromFile, availableFiles) ==
    /\ op = "idle"
    /\ op' = "resolveModulePath"
    /\ args' = << importPath, fromFile, availableFiles >>
    /\ res' = resolveModulePath(importPath, fromFile, availableFiles)
    /\ UNCHANGED << files, now, graph, bfs, parser, safety, runst >>

NextResolve ==
    \E importPath \in ResolveSpecifiers, fromFile \in ResolveFrom,
       availableFiles \in { A \in SUBSET ResolveFiles : Cardinality(A) <= MaxAvailable } :
        ResolveModulePath(importPath, fromFile, availableFiles)

SpecResolve == InitResolve /\ [][NextResolve]_vars

\* the suffixes, in the order of the claim
SuffixOrder ==
    << << ".ts" >>, << ".tsx" >>, << ".js" >>, << ".jsx" >>,
       << "/", "index", ".ts" >>, << "/", "index", ".tsx" >>,
       << "/", "index", ".js" >>, << "/", "index", ".jsx" >>, << ".py" >> >>

\* the candidates of a normalized path c, in the order of the claim
candidatesInOrder(c) ==
    LET stripped == IF Len(c) > 0 /\ c[Len(c)] \in { ".js", ".jsx", ".ts", ".tsx" }
                    THEN SubSeq(c, 1, Len(c) - 1) ELSE c
    IN << c >> \o [ i \in 1..Len(SuffixOrder) |-> c \o SuffixOrder[i] ]
              \o [ i \in 1..Len(SuffixOrder) |-> stripped \o SuffixOrder[i] ]

\* C17: for a relative specifier, resolveModulePath returns the first
\* candidate that availableFiles has, in the order: the normalized candidate,
\* the candidate with each suffix, the candidate without its extension with
\* each suffix; and nothing when there is none.  './utils' from
\* 'src/index.ts' gives 'src/utils.ts' when it exists (no file being named
\* 'src/utils' itself), 'src/utils/index.ts' when only that exists, and
\* nothing when neither exists.
C17_FirstCandidateWins ==
    (op = "resolveModulePath" /\ args[1][1] \in { ".", ".." }) =>
        LET list    == candidatesInOrder(normalizePath(resolveImportPath(args[1], args[2])))
            present == { i \in 1..Len(list) : list[i] \in args[3] }
            utilsTs == << "src", "/", "utils", ".ts" >>
            indexTs == << "src", "/", "utils", "/", "index", ".ts" >>
        IN /\ IF present = {} THEN res = Null
              ELSE res = list[CHOOSE i \in present : \A j \in present : i <= j]
           /\ (args[1] = << ".", "/", "utils" >> /\ args[2] = << "src", "/", "index", ".ts" >>) =>
                 /\ (utilsTs \in args[3] /\ << "src", "/", "utils" >> \notin args[3])
                        => res = utilsTs
                 /\ args[3] = { indexTs } => res = indexTs
                 /\ args[3] \cap { utilsTs, indexTs } = {} /\ args[3] \subseteq { << "utils", ".tsx" >> }
                        => res = Null

\* './utils' from 'src/index.ts' with both 'src/utils.ts' and
\* 'src/utils/index.ts' available
C17_Witness ==
    /\ op = "resolveModulePath"
    /\ args = << << ".", "/", "utils" >>, << "src", "/", "index", ".ts" >>,
                 { << "src", "/", "utils", ".ts" >>, << "src", "/", "utils", "/", "index", ".ts" >> } >>
    /\ res = << "src", "/", "utils", ".ts" >>

(***************************************************************************)
(* Specification SpecQuery: a caller interleaves the four queries of       *)
(* graph.ts on one built graph; findDependents and findDependencies run    *)
(* one loop iteration per step, getAffectedFiles and findRelatedTests as   *)
(* one step each.                                                          *)
(***************************************************************************)
NextQuery ==
    \/ NextBfs
    \/ NextReach

SpecQuery == InitBfs /\ [][NextQuery]_vars

\* what a query called with the recorded arguments returns on graph g when no
\* other call has run before it
freshResult(g) ==
    CASE op = "returned" /\ args[1] = "importedBy" -> findDependents(g, args[2], args[3])
      [] op = "returned" /\ args[1] = "imports"    -> findDependencies(g, args[2], args[3])
      [] op = "getAffectedFiles"                   -> getAffectedFiles(g, args[1])
      [] op = "findRelatedTests"                   -> findRelatedTests(g, args[1], args[2])
      [] OTHER                                     -> res

\* C21: after any sequence of findDependents, findDependencies,
\* findRelatedTests and getAffectedFiles calls the graph (every node's imports,
\* importedBy and externalDeps, and the metadata) is the one the build
\* produced, and every call returns what it returns on the freshly built
\* graph with no call before it: no traversal state is carried over.
C21_QueriesLeaveGraphUnchanged ==
    /\ graph = buildDependencyGraph(files, RootDir, 0)
    /\ res = freshResult(buildDependencyGraph(files, RootDir, 0))

\* a traversal that walked edges has returned on a graph with a cycle, after
\* which the graph is still the built one
C21_Witness ==
    /\ op = "returned"
    /\ Len(bfs.visited) >= 2
    /\ Len(res) >= 1
    /\ includes(MapGet(graph.nodes, ReachKey(1)).imports, ReachKey(2))
    /\ includes(MapGet(graph.nodes, ReachKey(2)).imports, ReachKey(1))
    /\ graph = buildDependencyGraph(files, RootDir, 0)

(***************************************************************************)
(* Further properties of applySafetyRules (specification SpecSafety)       *)
(***************************************************************************)
\* C22: every entry of config.criticalTests that is in allTests is in the
\* finalTests that applySafetyRules returns, also when config.skipTests lists
\* the same test.
C22_CriticalTestsAlwaysRun ==
    safety.phase = "done" =>
        \A i \in 1..Len(safety.config.criticalTests) :
            includes(safety.allTests, safety.config.criticalTests[i])
                => includes(res.finalTests, safety.config.criticalTests[i])

\* the number of distinct tests of allTests that finalTests holds
suiteTestsIn(finalTests, allTests) == Cardinality(Range(finalTests) \cap Range(allTests))

\* C23: when skipping is allowed and allTests is not empty, at least
\* ceil(|allTests| * (1 - maxSkipRatio)) tests of allTests are in finalTests,
\* whatever testsToRun holds (duplicates and names outside allTests included).
C23_MinimumShareOfSuiteRuns ==
    (safety.phase = "done" /\ res.allowSkipping /\ Len(safety.allTests) > 0) =>
        suiteTestsIn(res.finalTests, safety.allTests)
            >= minTestsOf(Len(safety.allTests), safety.config.maxSkipRatio)

\* C26: when skipping is allowed no test of config.skipTests is in finalTests,
\* also when the max-skip-ratio rule has added tests.
C26_SkipTestsNeverRun ==
    (safety.phase = "done" /\ res.allowSkipping) =>
        \A i \in 1..Len(safety.config.skipTests) :
            ~includes(res.finalTests, safety.config.skipTests[i])

(***************************************************************************)
(* Hunk headers and marker lines (specification SpecDiff)                  *)
(***************************************************************************)
\* the four numbers a header '@@ -a[,b] +c[,d] @@' stands for
countsOfHeader(line) ==
    LET plus == CHOOSE i \in 1..Len(line) : line[i] = " +"
    IN << parseInt(line[2]),
          IF line[3] = "," THEN parseInt(line[4]) ELSE 1,
          parseInt(line[plus + 1]),
          IF line[plus + 2] = "," THEN parseInt(line[plus + 3]) ELSE 1 >>

\* C24: right after a hunk header '@@ -a[,b] +c[,d] @@' that follows a file
\* header was read, the open hunk has oldStart = a, oldLines = b,
\* newStart = c, newLines = d and no lines yet, where an omitted count is 1
\* and a count of 0 stays 0; '@@ -10,6 +10,8 @@' gives 10, 6, 10, 8.
C24_HunkHeaderNumbers ==
    (/\ parser.phase = "reading"
     /\ Len(parser.lines) > 0
     /\ isHunkHeader(Last(parser.lines))
     /\ gitHeaderPositions(parser.lines) # {}) =>
        LET line == Last(parser.lines)
            c    == countsOfHeader(line)
        IN /\ parser.currentHunk = << DiffHunk(c[1], c[2], c[3], c[4]) >>
           /\ line = hunkHeader("10", "6", "10", "8")
                 => parser.currentHunk = << DiffHunk(10, 6, 10, 8) >>

\* a header with counts of 0 and then a header without counts were read
C24_Witness ==
    /\ parser.phase = "reading"
    /\ parser.lines = << fileHeader(<< "f" >>, << "f" >>), hunkHeader("0", "0", "1", "2"),
                         << "@@ -", "1", " +", "1", " @@", " ctx" >> >>
    /\ parser.currentFile[1].hunks = << DiffHunk(0, 0, 1, 2) >>
    /\ parser.currentHunk = << DiffHunk(1, 1, 1, 1) >>

\* C25: once the first hunk header of a file block has been read, no later
\* line of that block changes the changeType of the file.
C25_ChangeTypeFixedAfterFirstHunk ==
    [][ (/\ parser.phase = "reading"
         /\ parser'.phase = "reading"
         /\ Len(parser.currentFile) > 0
         /\ Len(parser.currentHunk) > 0
         /\ ~isGitHeader(Last(parser'.lines)))
        => parser'.currentFile[1].changeType = parser.currentFile[1].changeType ]_vars

(***************************************************************************)
(* Relative imports of Python files (specification Spec)                   *)
(***************************************************************************)
\* C27: when d/main.py holds 'from .utils import helper' and d/utils.py is in
\* the mapping, the built graph has 'd/utils.py' in the imports of d/main.py
\* and 'd/main.py' in the importedBy of d/utils.py.
C27_PythonRelativeImportEdge ==
    LET main  == << "d", "/", "main", ".py" >>
        utils == << "d", "/", "utils", ".py" >>
    IN (/\ BuildDone
        /\ MapHas(files, main)
        /\ MapHas(files, utils)
        /\ includes(MapGet(files, main), FromImport(<< ".", "utils" >>))) =>
           /\ includes(MapGet(graph.nodes, main).imports, utils)
           /\ includes(MapGet(graph.nodes, utils).importedBy, main)

(***************************************************************************)
(* Specification SpecNormalize: normalizePath is applied to a path and     *)
(* then to its own result.  A path is a sequence of at most MaxPathLen     *)
(* characters out of '.', '/', a backslash and a letter.                   *)
(***************************************************************************)
MaxPathLen == 4

PathChars == { ".", "/", "\\", "a" }

InitNormalize ==
    /\ files = << >>
    /\ now = 0
    /\ graph = NoGraph
    /\ op = "idle"
    /\ \E filePath \in SeqsUpTo(PathChars, MaxPathLen) : args = << filePath >>
    /\ res = Null
    /\ bfs = NoBfs
    /\ parser = NoParser
    /\ safety = NoSafety
    /\ runst = NoRun

\* normalizePath(filePath)
NormalizePath ==
    /\ op = "idle"
    /\ res' = normalizePath(args[1])
    /\ op' = "normalizePath"
    /\ UNCHANGED << files, now, graph, args, bfs, parser, safety, runst >>

\* normalizePath of the path the first call returned
NormalizeAgain ==
    /\ op = "normalizePath"
    /\ args' = Append(args, res)
    /\ res' = normalizePath(res)
    /\ op' = "normalizeAgain"
    /\ UNCHANGED << files, now, graph, bfs, parser, safety, runst >>

NextNormalize ==
    \/ NormalizePath
    \/ NormalizeAgain

SpecNormalize == InitNormalize /\ [][NextNormalize]_vars

\* C28: normalizePath(normalizePath(p)) = normalizePath(p) for every path p,
\* with any mix of leading './' segments and backslashes.
C28_NormalizePathIdempotent ==
    op = "normalizeAgain" => res = args[2]

(***************************************************************************)
(* Dependents and dependencies as converse relations (specification        *)
(* SpecBfs)                                                                *)
(***************************************************************************)
\* every imports entry of graph g is the key of a node
importsAreNodes(g) ==
    \A i \in 1..Len(g.nodes) : \A j \in 1..Len(g.nodes[i].value.imports) :
        MapHas(g.nodes, g.nodes[i].value.imports[j])

\* C29: in a built graph whose imports targets are all nodes, for distinct
\* nodes A and B and a maxDepth of at least the number of nodes, B is in
\* findDependents(graph, A, maxDepth) if and only if A is in
\* findDependencies(graph, B, maxDepth).
C29_DependentsConverseOfDependencies ==
    (/\ op = "returned"
     /\ importsAreNodes(graph)
     /\ MapHas(graph.nodes, normalizePath(args[2]))
     /\ args[3] >= Len(graph.nodes)) =>
        \A i \in 1..Len(graph.nodes) :
            LET A == normalizePath(args[2])
                B == graph.nodes[i].key
            IN A # B =>
                 IF args[1] = "importedBy"
                 THEN includes(res, B) <=> includes(findDependencies(graph, B, args[3]), A)
                 ELSE includes(res, B) <=> includes(findDependents(graph, B, args[3]), A)

\* on the chain A imports B imports C imports D, the dependents of D include
\* A, three edges away, and the dependencies of A include D
C29_Witness ==
    /\ op = "returned"
    /\ files = ChainFiles
    /\ args = << "importedBy", ReachKey(4), DefaultMaxDepth >>
    /\ includes(res, ReachKey(1))
    /\ includes(findDependencies(graph, ReachKey(1), DefaultMaxDepth), ReachKey(4))
    /\ ~includes(findDependents(graph, ReachKey(1), DefaultMaxDepth), ReachKey(4))

(***************************************************************************)
(* analysis/cache.ts.  The file system is a Map from a path to the content *)
(* of the file there.  A JSON text is a sequence of lexemes [t, v]: the    *)
(* punctuation "{", "}", "[", "]", ",", a member name with its colon       *)
(* ("key"), a string ("str") and a number ("num"); white space is left     *)
(* out.  A value that may be null is a sequence of length 0 or 1.          *)
(***************************************************************************)
CACHE_DIR == << ".smartci" >>

CACHE_FILE == << "graph", ".json" >>

\* path.join(rootDir, CACHE_DIR)
cacheDirOf(rootDir) == rootDir \o << "/" >> \o CACHE_DIR

getCachePath(rootDir) == cacheDirOf(rootDir) \o << "/" >> \o CACHE_FILE

Lexeme(t, v) == [ t |-> t, v |-> v ]

\* what the file system holds at the path of a directory
Directory == << Lexeme("dir", "") >>

RECURSIVE joinComma(_)
\* the texts of the items with "," between them
joinComma(items) ==
    IF Len(items) = 0 THEN << >>
    ELSE IF Len(items) = 1 THEN items[1]
    ELSE items[1] \o << Lexeme(",", "") >> \o joinComma(Tail(items))

\* JSON.stringify of a string[]
jsonStrings(arr) ==
    << Lexeme("[", "") >> \o joinComma([ i \in 1..Len(arr) |-> << Lexeme("str", arr[i]) >> ])
                          \o << Lexeme("]", "") >>

\* JSON.stringify of a GraphNode: its properties in creation order
jsonNode(node) ==
    << Lexeme("{", "") >>
    \o joinComma(<< << Lexeme("key", "path"), Lexeme("str", node.path) >>,
                    << Lexeme("key", "imports") >> \o jsonStrings(node.imports),
                    << Lexeme("key", "importedBy") >> \o jsonStrings(node.importedBy),
                    << Lexeme("key", "externalDeps") >> \o jsonStrings(node.externalDeps),
                    << Lexeme("key", "language"), Lexeme("str", node.language) >> >>)
    \o << Lexeme("}", "") >>

\* JSON.stringify(serialized, null, 2)
JSONstringify(serialized) ==
    << Lexeme("{", ""), Lexeme("key", "nodes"), Lexeme("{", "") >>
    \o joinComma([ i \in 1..Len(serialized.nodes) |->
                     << Lexeme("key", serialized.nodes[i].key) >>
                       \o jsonNode(serialized.nodes[i].value) ])
    \o << Lexeme("}", ""), Lexeme(",", ""), Lexeme("key", "metadata"), Lexeme("{", "") >>
    \o joinComma(<< << Lexeme("key", "builtAt"),
                       Lexeme("str", serialized.metadata.builtAt) >>,
                    << Lexeme("key", "rootDir"),
                       Lexeme("str", serialized.metadata.rootDir) >>,
                    << Lexeme("key", "fileCount"),
                       Lexeme("num", serialized.metadata.fileCount) >> >>)
    \o << Lexeme("}", ""), Lexeme("}", "") >>

\* the kind of the lexeme at position i, "end" past the end of the text
kindAt(text, i) == IF i <= Len(text) THEN text[i].t ELSE "end"

ParseError == [ ok |-> FALSE, kind |-> "error", value |-> << >>, next |-> 0 ]

RECURSIVE parseValue(_, _)
RECURSIVE parseElements(_, _, _)
RECURSIVE parseMembers(_, _, _)

\* the JSON value that starts at position i: an array is the sequence of its
\* elements, an object the Map of its members
parseValue(text, i) ==
    CASE kindAt(text, i) = "str" ->
           [ ok |-> TRUE, kind |-> "string", value |-> text[i].v, next |-> i + 1 ]
      [] kindAt(text, i) = "num" ->
           [ ok |-> TRUE, kind |-> "number", value |-> text[i].v, next |-> i + 1 ]
      [] kindAt(text, i) = "[" ->
           IF kindAt(text, i + 1) = "]"
           THEN [ ok |-> TRUE, kind |-> "array", value |-> << >>, next |-> i + 2 ]
           ELSE parseElements(text, i + 1, << >>)
      [] kindAt(text, i) = "{" ->
           IF kindAt(text, i + 1) = "}"
           THEN [ ok |-> TRUE, kind |-> "object", value |-> << >>, next |-> i + 2 ]
           ELSE parseMembers(text, i + 1, << >>)
      [] OTHER -> ParseError

\* the elements of an array from position i on, up to its "]"
parseElements(text, i, acc) ==
    LET r == parseValue(text, i)
    IN IF ~r.ok THEN ParseError
       ELSE IF kindAt(text, r.next) = ","
       THEN parseElements(text, r.next + 1, Append(acc, r.value))
       ELSE IF kindAt(text, r.next) = "]"
       THEN [ ok |-> TRUE, kind |-> "array", value |-> Append(acc, r.value),
              next |-> r.next + 1 ]
       ELSE ParseError

\* the members of an object from position i on, up to its "}"
parseMembers(text, i, acc) ==
    IF kindAt(text, i) # "key" THEN ParseError
    ELSE LET r == parseValue(text, i + 1)
         IN IF ~r.ok THEN ParseError
            ELSE IF kindAt(text, r.next) = ","
            THEN parseMembers(text, r.next + 1, MapSet(acc, text[i].v, r.value))
            ELSE IF kindAt(text, r.next) = "}"
            THEN [ ok |-> TRUE, kind |-> "object", value |-> MapSet(acc, text[i].v, r.value),
                   next |-> r.next + 1 ]
            ELSE ParseError

\* JSON.parse(content): the parse of the whole text, not ok for a SyntaxError
JSONparseContent(content) ==
    LET r == parseValue(content, 1)
    IN IF r.ok /\ r.next = Len(content) + 1 THEN r ELSE ParseError

\* the parsed members of a node read as a GraphNode
asGraphNode(members) ==
    GraphNode(MapGet(members, "path"), MapGet(members, "imports"),
              MapGet(members, "importedBy"), MapGet(members, "externalDeps"),
              MapGet(members, "language"))

\* the parsed value read as a SerializableGraph
asSerializableGraph(members) ==
    LET nodes    == MapGet(members, "nodes")
        metadata == MapGet(members, "metadata")
    IN [ nodes |-> [ i \in 1..Len(nodes) |->
                       [ key |-> nodes[i].key, value |-> asGraphNode(nodes[i].value) ] ],
         metadata |-> [ builtAt |-> MapGet(metadata, "builtAt"),
                        rootDir |-> MapGet(metadata, "rootDir"),
                        fileCount |-> MapGet(metadata, "fileCount") ] ]

\* << graph >>, or << >> for null: no file, or an exception caught (a
\* SyntaxError of JSON.parse, a TypeError of Object.entries(data.nodes))
loadGraphCache(fs, rootDir) ==
    IF ~MapHas(fs, getCachePath(rootDir)) THEN << >>
    ELSE LET data == JSONparseContent(MapGet(fs, getCachePath(rootDir)))
         IN IF ~data.ok THEN << >>
            ELSE IF data.kind # "object" \/ ~MapHas(data.value, "nodes") THEN << >>
            ELSE << deserializeGraph(asSerializableGraph(data.value)) >>

\* mutant: an existing cache file is left as it is
saveGraphCacheKeepExisting(fs, g, rootDir) ==
    LET withDir == IF ~MapHas(fs, cacheDirOf(rootDir))
                   THEN MapSet(fs, cacheDirOf(rootDir), Directory) ELSE fs
    IN IF MapHas(fs, getCachePath(rootDir)) THEN withDir
       ELSE MapSet(withDir, getCachePath(rootDir), JSONstringify(serializeGraph(g)))

\* the file system after saveGraphCache(graph, rootDir)
saveGraphCache(fs, g, rootDir) ==
    LET withDir == IF ~MapHas(fs, cacheDirOf(rootDir))
                   THEN MapSet(fs, cacheDirOf(rootDir), Directory) ELSE fs
    IN MapSet(withDir, getCachePath(rootDir), JSONstringify(serializeGraph(g)))

\* the file system after clearCache(rootDir)
clearCache(fs, rootDir) ==
    IF MapHas(fs, getCachePath(rootDir))
    THEN SelectSeq(fs, LAMBDA e : e.key # getCachePath(rootDir))
    ELSE fs

(***************************************************************************)
(* Specification SpecCache: saveGraphCache, clearCache and loadGraphCache  *)
(* are called in any order on one root directory, and the cache file may   *)
(* be cut short or overwritten from outside.  args records the last thing  *)
(* that happened to the cache file.                                        *)
(***************************************************************************)
\* the mappings whose graphs are saved: no file, one file with an external
\* import, the chain A imports B imports C imports D
CacheFiles ==
    { << >>,
      << [ key |-> ReachKey(1), value |-> << Es(<< "react", "/", "dom" >>) >> ] >>,
      ChainFiles }

CacheGraphs == { buildDependencyGraph(f, RootDir, c) : f \in CacheFiles, c \in 0..MaxClock }

\* what an interrupted or foreign write leaves of the content: a proper
\* prefix of it, or a text that is no JSON
damagedContents(fs) ==
    IF ~MapHas(fs, getCachePath(RootDir)) THEN { }
    ELSE LET content == MapGet(fs, getCachePath(RootDir))
         IN { SubSeq(content, 1, n) : n \in 0..(Len(content) - 1) }
              \cup { << Lexeme("}", "") >> }

InitCache ==
    /\ files = << >>
    /\ now = 0
    /\ graph = NoGraph
    /\ op = "idle"
    /\ args = << "absent" >>
    /\ res = << >>
    /\ bfs = NoBfs
    /\ parser = NoParser
    /\ safety = NoSafety
    /\ runst = NoRun

SaveGraphCache(g) ==
    /\ files' = saveGraphCache(files, g, RootDir)
    /\ graph' = g
    /\ op' = "saveGraphCache"
    /\ args' = << "saved" >>
    /\ UNCHANGED << now, res, bfs, parser, safety, runst >>

ClearCache ==
    /\ files' = clearCache(files, RootDir)
    /\ op' = "clearCache"
    /\ args' = << "absent" >>
    /\ UNCHANGED << now, graph, res, bfs, parser, safety, runst >>

LoadGraphCache ==
    /\ res' = loadGraphCache(files, RootDir)
    /\ op' = "loadGraphCache"
    /\ UNCHANGED << files, now, graph, args, bfs, parser, safety, runst >>

\* the cache file is damaged from outside
Damage ==
    /\ args = << "saved" >>
    /\ \E content \in damagedContents(files) :
           files' = MapSet(files, getCachePath(RootDir), content)
    /\ op' = "damage"
    /\ args' = << "damaged" >>
    /\ UNCHANGED << now, graph, res, bfs, parser, safety, runst >>

NextCache ==
    \/ \E g \in CacheGraphs : SaveGraphCache(g)
    \/ ClearCache
    \/ LoadGraphCache
    \/ Damage

SpecCache == InitCache /\ [][NextCache]_vars

\* C30: loadGraphCache returns a graph with the nodes and the metadata of the
\* most recently saved graph when no clearCache came after that save, and
\* null when nothing was saved or the cache was cleared; it returns null,
\* raising nothing, when the content of the cache file cannot be parsed;
\* clearCache on an absent cache changes nothing in the file system.
C30_LoadReturnsLastSave ==
    /\ [](op = "loadGraphCache" =>
            CASE args = << "saved" >> ->
                   /\ Len(res) = 1
                   /\ res[1].nodes = graph.nodes
                   /\ res[1].metadata = graph.metadata
              [] OTHER -> res = << >>)
    /\ [][ (op' = "clearCache" /\ ~MapHas(files, getCachePath(RootDir))) => files' = files ]_vars

\* the chain graph built at time 1 was saved and then loaded back from the file
C30_Witness ==
    /\ op = "loadGraphCache"
    /\ args = << "saved" >>
    /\ graph = buildDependencyGraph(ChainFiles, RootDir, 1)
    /\ res = << graph >>
    /\ MapHas(files, getCachePath(RootDir))

====
